---- MODULE Spec2Model ----
(***************************************************************************)
(* A model of the Fluent-to-Python compiler back end:                      *)
(*   src/backend/ast_nodes.py        the AST node classes                  *)
(*   src/backend/transpiler.py       the tree-walking code generator       *)
(*   src/backend/fluent_stdlib_map.py  the built-in and operator tables    *)
(* of the tree builder that feeds it:                                      *)
(*   src/backend/ast_transformer.py  the rules of ASTTransformer           *)
(* and of the line-oriented transpiler:                                    *)
(*   src/transpile_fluent.py         transpile(fluent_code)                *)
(*                                                                         *)
(* An AST node is a record whose field node_type is the name of its Python *)
(* class and whose other fields are the attributes the constructor sets.   *)
(* The generator is modelled method by method: every visit_<Type> of the   *)
(* Transpiler is an operator of the same name.  A method that returns text *)
(* is an operator from a node to a string; a method that appends to        *)
(* self.output is an operator from (node, self) to the new self.           *)
(***************************************************************************)
EXTENDS Integers, Sequences, FiniteSets, TLC

VARIABLES
    self,     \* the Transpiler instance: the fields __init__ sets
    pc,       \* where the caller is: "idle", or "visiting" inside transpile()
    ast,      \* the argument of the call of transpile() that returned last
    result,   \* what that call returned; None while a call is running
    raised,   \* the exception that call ended with; None when it returned
    calls,    \* how many calls of transpile() have returned on this instance
    fluent_code,  \* transpile_fluent.transpile(fluent_code): its argument
    frame,        \* the local variables of that call while it runs
    python_code,  \* what the call returned; None before it returns
    at,           \* "idle", "loop" inside the while loop, or "returned"
    built         \* the last call of a rule of ASTTransformer: the rule,
                  \* its children, and the node returned or the error raised

\* The variables of the three programs: backend/transpiler.py,
\* transpile_fluent.py and backend/ast_transformer.py.  None of them calls
\* another: the back end is handed a finished tree.
backend == <<self, pc, ast, result, raised, calls>>
line_oriented == <<fluent_code, frame, python_code, at>>
tree_builder == <<built>>
vars == <<backend, line_oriented, tree_builder>>

-----------------------------------------------------------------------------
(* Python values.  A field that the code probes with isinstance or hasattr  *)
(* holds a tagged value, so that the probe is a computation on the value.   *)

PyStr(s) == [str |-> s]
PyInt(i) == [int |-> i]
PyBool(b) == [bool |-> b]
PyFloat(i, f) == [float_int |-> i, float_frac |-> f]
PyNone == [node_type |-> "NoneType"]

IsStr(v) == DOMAIN v = {"str"}
IsBool(v) == DOMAIN v = {"bool"}
IsNone(v) == v = PyNone
HasAttr(v, field) == field \in DOMAIN v

\* An optional attribute: <<>> is Python's None, <<x>> is the object x.
Absent == <<>>
Present(x) == <<x>>
IsPresent(opt) == Len(opt) > 0
Get(opt) == opt[1]

-----------------------------------------------------------------------------
(* src/backend/ast_nodes.py                                                 *)

Program(statements) == [node_type |-> "Program", statements |-> statements]

VariableDeclaration(name, var_type, initializer) ==
    [node_type |-> "VariableDeclaration", name |-> name,
     var_type |-> var_type, initializer |-> initializer]

Assignment(target, value) ==
    [node_type |-> "Assignment", target |-> target, value |-> value]

PrintStatement(expression) ==
    [node_type |-> "PrintStatement", expression |-> expression]

FunctionCallStatement(function_call) ==
    [node_type |-> "FunctionCallStatement", function_call |-> function_call]

IfStatement(condition, then_block, else_block) ==
    [node_type |-> "IfStatement", condition |-> condition,
     then_block |-> then_block, else_block |-> else_block]

WhileStatement(condition, body) ==
    [node_type |-> "WhileStatement", condition |-> condition, body |-> body]

ForeachStatement(item_name, iterable, body) ==
    [node_type |-> "ForeachStatement", item_name |-> item_name,
     iterable |-> iterable, body |-> body]

FunctionDefinition(name, params, return_type, body) ==
    [node_type |-> "FunctionDefinition", name |-> name, params |-> params,
     return_type |-> return_type, body |-> body]

Parameter(name, param_type) ==
    [node_type |-> "Parameter", name |-> name, param_type |-> param_type]

ReturnStatement(expression) ==
    [node_type |-> "ReturnStatement", expression |-> expression]

BreakStatement == [node_type |-> "BreakStatement"]

Type(name) == [node_type |-> "Type", name |-> name]

ListType(element_type) ==
    [node_type |-> "ListType", name |-> "LIST", element_type |-> element_type]

MapType(key_type, value_type) ==
    [node_type |-> "MapType", name |-> "MAP", key_type |-> key_type,
     value_type |-> value_type]

Literal(value, literal_type) ==
    [node_type |-> "Literal", value |-> value, type |-> literal_type]

Identifier(name) == [node_type |-> "Identifier", name |-> name]

BinaryOp(left, operator, right) ==
    [node_type |-> "BinaryOp", left |-> left, operator |-> operator,
     right |-> right]

UnaryOp(operator, operand) ==
    [node_type |-> "UnaryOp", operator |-> operator, operand |-> operand]

FunctionCall(name, arguments) ==
    [node_type |-> "FunctionCall", name |-> name, arguments |-> arguments]

ListLiteral(elements) == [node_type |-> "ListLiteral", elements |-> elements]

\* The base class: an instance of it is a node no visit_<Type> exists for.
Node == [node_type |-> "Node"]

\* An object that is no AST node but has a value attribute (a parser token).
Token(value) == [node_type |-> "Token", value |-> value]

-----------------------------------------------------------------------------
(* Strings.  str.lower() and str.isupper() are computed from a table of the *)
(* cased strings the model uses: UPPER maps every string that has cased     *)
(* characters, all of them upper case, to its lower-case form.              *)

UPPER ==
    ("ADD" :> "add") @@ ("SUB" :> "sub") @@ ("MUL" :> "mul") @@
    ("DIV" :> "div") @@ ("EQ" :> "eq") @@ ("NEQ" :> "neq") @@
    ("LT" :> "lt") @@ ("LTE" :> "lte") @@ ("GT" :> "gt") @@
    ("GTE" :> "gte") @@ ("AND" :> "and") @@ ("OR" :> "or") @@
    ("NEG" :> "neg") @@ ("NOT" :> "not") @@
    ("INTEGER" :> "integer") @@ ("FLOAT" :> "float") @@
    ("STRING" :> "string") @@ ("BOOLEAN" :> "boolean") @@
    ("NULLTYPE" :> "nulltype") @@ ("NOTHING" :> "nothing") @@
    ("LIST" :> "list") @@ ("MAP" :> "map") @@
    ("TRUE" :> "true") @@ ("FALSE" :> "false") @@
    ("GET_LENGTH" :> "get_length") @@
    ("GET_STRING_LENGTH" :> "get_string_length") @@
    ("GET_ELEMENT" :> "get_element") @@
    ("INTEGER_TO_STRING" :> "integer_to_string") @@
    ("PRINT" :> "print") @@
    ("INPUT" :> "input") @@
    ("READ_FILE" :> "read_file") @@
    ("WRITE_FILE" :> "write_file") @@
    ("APPEND_FILE" :> "append_file") @@
    ("FILE_EXISTS" :> "file_exists") @@
    ("OPEN_FILE" :> "open_file") @@
    ("CLOSE_FILE" :> "close_file") @@
    ("READ_LINE" :> "read_line") @@
    ("CONCATENATE_STRINGS" :> "concatenate_strings") @@
    ("SUBSTRING" :> "substring") @@
    ("STRING_CONTAINS" :> "string_contains") @@
    ("SPLIT_STRING" :> "split_string") @@
    ("REPLACE_STRING" :> "replace_string") @@
    ("TRIM_STRING" :> "trim_string") @@
    ("STRING_TO_INTEGER" :> "string_to_integer") @@
    ("FLOAT_TO_STRING" :> "float_to_string") @@
    ("STRING_TO_FLOAT" :> "string_to_float") @@
    ("BOOLEAN_TO_STRING" :> "boolean_to_string") @@
    ("STRING_TO_BOOLEAN" :> "string_to_boolean") @@
    ("ABSOLUTE_VALUE" :> "absolute_value") @@
    ("SQUARE_ROOT" :> "square_root") @@
    ("POWER" :> "power") @@
    ("RANDOM_INTEGER" :> "random_integer") @@
    ("RANDOM_FLOAT" :> "random_float") @@
    ("ROUND" :> "round") @@
    ("CREATE_LIST" :> "create_list") @@
    ("SET_ELEMENT" :> "set_element") @@
    ("ADD_ELEMENT" :> "add_element") @@
    ("REMOVE_ELEMENT" :> "remove_element") @@
    ("INSERT_ELEMENT" :> "insert_element") @@
    ("FIND_ELEMENT" :> "find_element") @@
    ("LIST_TO_STRING" :> "list_to_string") @@
    ("CREATE_MAP" :> "create_map") @@
    ("MAP_HAS_KEY" :> "map_has_key") @@
    ("GET_MAP_VALUE" :> "get_map_value") @@
    ("SET_MAP_VALUE" :> "set_map_value") @@
    ("GET_MAP_KEYS" :> "get_map_keys") @@
    ("MYFUNC" :> "myfunc")

IsUpper(s) == s \in DOMAIN UPPER
Lower(s) == IF s \in DOMAIN UPPER THEN UPPER[s] ELSE s

RECURSIVE Join(_, _)
Join(sep, strs) ==
    IF Len(strs) = 0 THEN ""
    ELSE IF Len(strs) = 1 THEN strs[1]
    ELSE strs[1] \o sep \o Join(sep, Tail(strs))

RECURSIVE Repeat(_, _)
Repeat(s, n) == IF n <= 0 THEN "" ELSE s \o Repeat(s, n - 1)

\* str(value) of a Python value.
Str(v) ==
    IF IsStr(v) THEN v.str
    ELSE IF HasAttr(v, "int") THEN ToString(v.int)
    ELSE IF IsBool(v) THEN (IF v.bool THEN "True" ELSE "False")
    ELSE IF HasAttr(v, "float_int")
         THEN ToString(v.float_int) \o "." \o ToString(v.float_frac)
    ELSE IF IsNone(v) THEN "None"
    ELSE "<ast_nodes." \o v.node_type \o " object>"

\* repr(value) of a str without quotes or escapes.
Repr(v) == "'" \o v.str \o "'"

-----------------------------------------------------------------------------
(* src/backend/fluent_stdlib_map.py                                         *)

OPERATOR_MAP ==
    ("+" :> "+") @@ ("-" :> "-") @@ ("*" :> "*") @@ ("/" :> "/") @@
    ("==" :> "==") @@ ("!=" :> "!=") @@ ("<" :> "<") @@ ("<=" :> "<=") @@
    (">" :> ">") @@ (">=" :> ">=") @@
    ("AND" :> "and") @@ ("OR" :> "or") @@ ("NOT" :> "not ")

\* The built-in names and the Python callable each is mapped to.
FLUENT_TO_PYTHON_MAP ==
    ("PRINT" :> "print") @@ ("INPUT" :> "input") @@
    ("READ_FILE" :> "_read_file") @@ ("WRITE_FILE" :> "_write_file") @@
    ("APPEND_FILE" :> "_append_file") @@ ("FILE_EXISTS" :> "_file_exists") @@
    ("OPEN_FILE" :> "_open_file") @@ ("CLOSE_FILE" :> "_close_file") @@
    ("READ_LINE" :> "_read_line") @@
    ("CONCATENATE_STRINGS" :> "_concatenate_strings") @@
    ("GET_STRING_LENGTH" :> "len") @@ ("SUBSTRING" :> "_substring") @@
    ("STRING_CONTAINS" :> "_string_contains") @@
    ("SPLIT_STRING" :> "_split_string") @@
    ("REPLACE_STRING" :> "_replace_string") @@ ("TRIM_STRING" :> "str.strip") @@
    ("INTEGER_TO_STRING" :> "str") @@
    ("STRING_TO_INTEGER" :> "_string_to_integer") @@
    ("FLOAT_TO_STRING" :> "str") @@ ("STRING_TO_FLOAT" :> "_string_to_float") @@
    ("BOOLEAN_TO_STRING" :> "_boolean_to_string") @@
    ("STRING_TO_BOOLEAN" :> "_string_to_boolean") @@
    ("ABSOLUTE_VALUE" :> "abs") @@ ("SQUARE_ROOT" :> "_sqrt") @@
    ("POWER" :> "_power") @@ ("RANDOM_INTEGER" :> "_random_integer") @@
    ("RANDOM_FLOAT" :> "_random_float") @@ ("ROUND" :> "round") @@
    ("CREATE_LIST" :> "_create_list") @@ ("GET_LENGTH" :> "len") @@
    ("GET_ELEMENT" :> "_get_element") @@ ("SET_ELEMENT" :> "_set_element") @@
    ("ADD_ELEMENT" :> "_add_element") @@
    ("REMOVE_ELEMENT" :> "_remove_element") @@
    ("INSERT_ELEMENT" :> "_insert_element") @@
    ("FIND_ELEMENT" :> "_find_element") @@
    ("LIST_TO_STRING" :> "list_to_string") @@
    ("CREATE_MAP" :> "_create_map") @@ ("MAP_HAS_KEY" :> "_map_has_key") @@
    ("GET_MAP_VALUE" :> "_get_map_value") @@
    ("SET_MAP_VALUE" :> "_set_map_value") @@
    ("GET_MAP_KEYS" :> "_get_map_keys")

\* The names the module binds at its top level: its functions, its tables
\* and the lower-case exports of lines 301-312.
StdlibNames ==
    {"_concatenate_strings", "_get_element", "_set_element",
     "_add_element", "_map_has_key", "_get_map_value", "_set_map_value",
     "_get_map_keys", "_string_to_integer", "_string_to_float",
     "_string_to_boolean", "_boolean_to_string", "_null_to_string",
     "_open_file", "_read_line", "_write_line", "_close_file",
     "_split_string", "list_to_string", "_read_file", "_write_file",
     "_append_file", "_file_exists", "_substring", "_string_contains",
     "_replace_string", "_sqrt", "_power", "_random_integer",
     "_random_float", "_remove_element", "_insert_element",
     "_find_element", "_create_list", "_create_map",
     "FLUENT_TO_PYTHON_MAP", "OPERATOR_MAP", "get_length", "get_element",
     "get_string_length", "split_string", "concatenate_strings",
     "integer_to_string", "map_has_key", "get_map_value", "set_map_value",
     "get_map_keys"}

\* dict.get(key, default)
DictGet(d, key, default) == IF key \in DOMAIN d THEN d[key] ELSE default

-----------------------------------------------------------------------------
(* src/backend/transpiler.py: the methods that return text.                 *)

RECURSIVE visit_expr(_)

visit_Type(node) ==
    IF node.name = "NULLTYPE" \/ node.name = "NOTHING" THEN "None"
    ELSE Lower(node.name)

visit_ListType(node) == "list[" \o visit_expr(node.element_type) \o "]"

visit_MapType(node) ==
    "dict[" \o visit_expr(node.key_type) \o ", "
            \o visit_expr(node.value_type) \o "]"

visit_Literal(node) ==
    IF node.type = "INTEGER" THEN ToString(node.value.int)
    ELSE IF node.type = "FLOAT" THEN Str(node.value)
    ELSE IF node.type = "STRING" THEN Repr(node.value)
    ELSE IF node.type = "BOOLEAN" THEN
        IF IsBool(node.value) THEN (IF node.value.bool THEN "True" ELSE "False")
        ELSE IF IsStr(node.value)
             THEN (IF Lower(node.value.str) = "true" THEN "True" ELSE "False")
        ELSE "False"
    ELSE IF node.type = "NULLTYPE" THEN "None"
    ELSE Str(node.value)

visit_ListLiteral(node) ==
    IF Len(node.elements) > 0
    THEN "[" \o Join(", ", [i \in 1..Len(node.elements) |->
                                visit_expr(node.elements[i])]) \o "]"
    ELSE "[]"

visit_Identifier(node) ==
    IF HasAttr(node, "name") THEN
        IF node.name = "TRUE" THEN "True"
        ELSE IF node.name = "FALSE" THEN "False"
        ELSE node.name
    ELSE "unknown"

visit_UnaryOp(node) ==
    LET op_str == DictGet(OPERATOR_MAP, node.operator, node.operator)
        operand == visit_expr(node.operand)
    IN  IF node.operator = "NOT" THEN op_str \o operand
        ELSE op_str \o "(" \o operand \o ")"

visit_BinaryOp(node) ==
    LET left == visit_expr(node.left)
        right == visit_expr(node.right)
    IN  IF node.operator = "ADD" THEN left \o " + " \o right
        ELSE IF node.operator = "SUB" THEN left \o " - " \o right
        ELSE IF node.operator = "MUL" THEN left \o " * " \o right
        ELSE IF node.operator = "DIV" THEN left \o " / " \o right
        ELSE IF node.operator = "AND" THEN left \o " and " \o right
        ELSE IF node.operator = "OR" THEN left \o " or " \o right
        ELSE left \o " " \o Lower(node.operator) \o " " \o right

\* The name a FunctionCall is looked up under: node.name, or node.name.name
\* when the name is an Identifier.
CalleeName(node) ==
    IF HasAttr(node.name, "name") THEN PyStr(node.name.name) ELSE node.name

visit_FunctionCall(node) ==
    LET func_name == CalleeName(node)
        stdlib == IsStr(func_name) /\ IsUpper(func_name.str)
        args_str ==
            IF HasAttr(node, "arguments") /\ Len(node.arguments) > 0
            THEN Join(", ", [i \in 1..Len(node.arguments) |->
                                visit_expr(node.arguments[i])])
            ELSE ""
    IN  IF stdlib /\ func_name.str = "GET_ELEMENT"
           /\ HasAttr(node, "arguments") /\ Len(node.arguments) = 2
        THEN visit_expr(node.arguments[1]) \o "["
                 \o visit_expr(node.arguments[2]) \o "]"
        ELSE (IF stdlib THEN Lower(func_name.str) ELSE Str(func_name))
                 \o "(" \o args_str \o ")"

generic_visit(node) ==
    IF HasAttr(node, "value") THEN Str(node.value) ELSE Str(node)

\* visit(node) for the nodes whose visit_<Type> returns text.
visit_expr(node) ==
    IF IsNone(node) THEN "None"
    ELSE CASE node.node_type = "Type" -> visit_Type(node)
           [] node.node_type = "ListType" -> visit_ListType(node)
           [] node.node_type = "MapType" -> visit_MapType(node)
           [] node.node_type = "Literal" -> visit_Literal(node)
           [] node.node_type = "ListLiteral" -> visit_ListLiteral(node)
           [] node.node_type = "Identifier" -> visit_Identifier(node)
           [] node.node_type = "UnaryOp" -> visit_UnaryOp(node)
           [] node.node_type = "BinaryOp" -> visit_BinaryOp(node)
           [] node.node_type = "FunctionCall" -> visit_FunctionCall(node)
           [] OTHER -> generic_visit(node)

-----------------------------------------------------------------------------
(* src/backend/transpiler.py: the state of a Transpiler.                    *)
(* scope and current_function_params are dicts whose values are all True:   *)
(* they are modelled by their key sets.  Two fields are history the model   *)
(* adds and the code does not have: levels is every value indent_level was  *)
(* assigned since transpile() began, blocks holds one entry per finished    *)
(* visit of an if, while, foreach or function node.                         *)

IndentWidth == 4

__init__ ==
    [output |-> <<>>, imports |-> {}, indent_level |-> 0,
     debug_mode |-> FALSE, required_imports |-> {}, scope |-> {},
     current_function_params |-> {}, levels |-> <<>>, blocks |-> <<>>]

_indent(self_) == Repeat(Repeat(" ", IndentWidth), self_.indent_level)

\* self.output.append(f"{indent}{text}"): a chunk keeps the two parts apart.
\* depth is indent_level at the time of the append, role says what the chunk
\* is (header, stmt, comment, doc, blank, raw, preamble); neither is text.
Append_(self_, indent, text, role) ==
    [self_ EXCEPT !.output = Append(@, [indent |-> indent, text |-> text,
                                        depth |-> self_.indent_level,
                                        role |-> role])]

\* self.output.append(f"{self._indent()}{text}")
Emit(self_, text, role) == Append_(self_, _indent(self_), text, role)

\* self.indent_level += d
Indent(self_, d) ==
    [self_ EXCEPT !.indent_level = @ + d,
                  !.levels = Append(@, self_.indent_level + d)]

\* The entry of blocks a visit leaves: indent_level before and after it.
Visited(before, after, node) ==
    [after EXCEPT !.blocks = Append(@, [node_type |-> node.node_type,
                                        before |-> before.indent_level,
                                        after |-> after.indent_level])]

\* The names self.required_imports.add() receives while visit(node) runs
\* (visit_FunctionCall, for every call the visit reaches).
RECURSIVE RequiredImportsOf(_)
RequiredImportsOf(node) ==
    IF IsNone(node) THEN {}
    ELSE CASE node.node_type = "FunctionCall" ->
                (IF IsStr(CalleeName(node)) /\ IsUpper(CalleeName(node).str)
                 THEN {CalleeName(node).str} ELSE {})
                \cup UNION {RequiredImportsOf(node.arguments[i]) :
                                i \in 1..Len(node.arguments)}
           [] node.node_type = "BinaryOp" ->
                RequiredImportsOf(node.left) \cup RequiredImportsOf(node.right)
           [] node.node_type = "UnaryOp" -> RequiredImportsOf(node.operand)
           [] node.node_type = "ListLiteral" ->
                UNION {RequiredImportsOf(node.elements[i]) :
                           i \in 1..Len(node.elements)}
           [] OTHER -> {}

\* self after visit(node) of a node whose visit returns text.
Visiting(self_, node) ==
    [self_ EXCEPT !.required_imports = @ \cup RequiredImportsOf(node)]

\* The name attribute of a node, as a Python value.
NameOf(node) ==
    IF node.node_type \in {"Identifier", "Type", "ListType", "MapType"}
    THEN PyStr(node.name) ELSE node.name

IsInstance(node, class) == ~IsNone(node) /\ node.node_type = class

\* What visit(node) returns: None, "" or the text of an expression.
ReturnOf(node) ==
    IF IsNone(node) THEN PyStr("None")
    ELSE IF node.node_type \in {"IfStatement", "WhileStatement",
                                "ForeachStatement", "ReturnStatement"}
         THEN PyStr("")
    ELSE IF node.node_type \in {"Program", "VariableDeclaration", "Assignment",
                                "PrintStatement", "FunctionCallStatement",
                                "FunctionDefinition", "BreakStatement"}
         THEN PyNone
    ELSE PyStr(visit_expr(node))

RECURSIVE visit(_, _)

\* for stmt in stmts: self.visit(stmt)
RECURSIVE VisitAll(_, _)
VisitAll(stmts, self_) ==
    IF Len(stmts) = 0 THEN self_
    ELSE VisitAll(Tail(stmts), visit(Head(stmts), self_))

visit_Program(node, self_) == VisitAll(node.statements, self_)

visit_VariableDeclaration(node, self_) ==
    LET var_name == IF HasAttr(node.name, "name") THEN node.name.name
                    ELSE Str(node.name)
        type_str == IF IsNone(node.var_type) THEN "Any"
                    ELSE visit_expr(node.var_type)
    IN  IF ~IsNone(node.initializer)
        THEN Emit(Visiting(self_, node.initializer),
                  var_name \o ": " \o type_str \o " = "
                      \o visit_expr(node.initializer) \o "\n", "stmt")
        ELSE Emit(self_, var_name \o ": " \o type_str \o " = None\n", "stmt")

visit_Assignment(node, self_) ==
    LET target == IF HasAttr(node.target, "name") THEN node.target.name
                  ELSE visit_expr(node.target)
        after == Visiting(self_, node.value)
    IN  IF IsInstance(node.value, "BinaryOp") /\ node.value.operator = "ADD"
        THEN Emit(after, target \o " = " \o visit_expr(node.value.left)
                      \o " + " \o visit_expr(node.value.right) \o "\n", "stmt")
        ELSE Emit(after, target \o " = " \o visit_expr(node.value) \o "\n",
                  "stmt")

visit_PrintStatement(node, self_) ==
    Emit(Visiting(self_, node.expression),
         "print(" \o visit_expr(node.expression) \o ")\n", "stmt")

visit_FunctionCallStatement(node, self_) ==
    Emit(Visiting(self_, node.function_call),
         visit_expr(node.function_call) \o "\n", "stmt")

\* The loop of visit_IfStatement over a branch: a statement whose visit
\* returns a non-empty str has that str appended to the output as it is.
RECURSIVE VisitBranch(_, _)
VisitBranch(stmts, self_) ==
    IF Len(stmts) = 0 THEN self_
    ELSE LET stmt == Head(stmts)
             after == visit(stmt, self_)
             statement_code == ReturnOf(stmt)
         IN  VisitBranch(Tail(stmts),
                 IF IsStr(statement_code) /\ statement_code.str # ""
                 THEN Append_(after, "", statement_code.str, "raw")
                 ELSE after)

\* The text of a condition whose operator is one the method rewrites.
Rewritten(node, operators, condition) ==
    IF IsInstance(node, "BinaryOp") /\ node.operator \in operators
    THEN visit_expr(node.left) \o " " \o node.operator \o " "
             \o visit_expr(node.right)
    ELSE condition

visit_IfStatement(node, self_) ==
    LET visited == Rewritten(node.condition, {"<", ">", "=="},
                             visit_expr(node.condition))
        func_name == IF HasAttr(node.condition.name, "name")
                     THEN node.condition.name.name
                     ELSE Str(node.condition.name)
        condition ==
            IF ~IsInstance(node.condition, "BinaryOp")
               /\ IsInstance(node.condition, "FunctionCall")
               /\ func_name \in {"GET_LENGTH", "GET_STRING_LENGTH"}
            THEN visited \o " == 0" ELSE visited
        s1 == Indent(Emit(Visiting(self_, node.condition),
                          "if " \o condition \o ":\n", "header"), 1)
        s2 == IF Len(node.then_block) > 0 THEN VisitBranch(node.then_block, s1)
              ELSE Emit(s1, "pass\n", "stmt")
        s3 == Indent(s2, -1)
        s4 == IF HasAttr(node, "else_block") /\ IsPresent(node.else_block)
                 /\ Len(Get(node.else_block)) > 0
              THEN Indent(VisitBranch(Get(node.else_block),
                              Indent(Emit(s3, "else:\n", "header"), 1)), -1)
              ELSE s3
    IN  Visited(self_, s4, node)

\* The loop of visit_WhileStatement over the body.
RECURSIVE VisitWhileBody(_, _)
VisitWhileBody(stmts, self_) ==
    IF Len(stmts) = 0 THEN self_
    ELSE LET stmt == Head(stmts)
             is_binary == IsInstance(stmt, "Assignment")
                          /\ IsInstance(stmt.value, "BinaryOp")
             increment == is_binary /\ stmt.value.operator = "ADD"
                          /\ HasAttr(stmt.target, "name")
                          /\ HasAttr(stmt.value.left, "name")
                          /\ NameOf(stmt.target) = NameOf(stmt.value.left)
             self_assign == ~is_binary /\ IsInstance(stmt, "Assignment")
                            /\ HasAttr(stmt.target, "name")
                            /\ HasAttr(stmt.value, "name")
                            /\ NameOf(stmt.target) = NameOf(stmt.value)
         IN  VisitWhileBody(Tail(stmts),
                 IF increment
                 THEN LET left == visit_expr(stmt.value.left)
                          right == visit_expr(stmt.value.right)
                          after == Visiting(Visiting(self_, stmt.value.left),
                                            stmt.value.right)
                      IN  IF right = "1"
                          THEN Emit(after, left \o " += 1\n", "stmt")
                          ELSE Emit(after, left \o " += " \o right \o "\n",
                                    "stmt")
                 ELSE IF self_assign
                 THEN Emit(self_, stmt.target.name
                               \o " += 1  # Fixed infinite loop\n", "stmt")
                 ELSE visit(stmt, self_))

\* visit_WhileStatement without its last line, self.indent_level -= 1.
visit_WhileStatement_NoDedent(node, self_) ==
    LET condition == Rewritten(node.condition, {"<", ">", "==", "!="},
                               visit_expr(node.condition))
        s0 == Visiting(self_, node.condition)
        s1 == IF IsInstance(node.condition, "Identifier")
              THEN Emit(Emit(s0, "# Ensure proper termination condition\n",
                             "comment"),
                        "while " \o visit_expr(node.condition)
                            \o " < get_length(numbers):\n", "header")
              ELSE Emit(s0, "while " \o condition \o ":\n", "header")
        s2 == VisitWhileBody(node.body, Indent(s1, 1))
    IN  Visited(self_, s2, node)

visit_WhileStatement(node, self_) ==
    LET condition == Rewritten(node.condition, {"<", ">", "==", "!="},
                               visit_expr(node.condition))
        s0 == Visiting(self_, node.condition)
        s1 == IF IsInstance(node.condition, "Identifier")
              THEN Emit(Emit(s0, "# Ensure proper termination condition\n",
                             "comment"),
                        "while " \o visit_expr(node.condition)
                            \o " < get_length(numbers):\n", "header")
              ELSE Emit(s0, "while " \o condition \o ":\n", "header")
        s2 == VisitWhileBody(node.body, Indent(s1, 1))
    IN  Visited(self_, Indent(s2, -1), node)

\* The loop of visit_ForeachStatement over the body.
RECURSIVE VisitForeachBody(_, _, _)
VisitForeachBody(node, stmts, self_) ==
    IF Len(stmts) = 0 THEN self_
    ELSE LET stmt == Head(stmts)
             is_binary == IsInstance(stmt, "Assignment")
                          /\ IsInstance(stmt.value, "BinaryOp")
             increment == is_binary /\ stmt.value.operator = "ADD"
                          /\ HasAttr(stmt.target, "name")
                          /\ HasAttr(stmt.value.left, "name")
                          /\ NameOf(stmt.target) = NameOf(stmt.value.left)
             self_assign == ~is_binary /\ IsInstance(stmt, "Assignment")
                            /\ HasAttr(stmt.target, "name")
                            /\ HasAttr(stmt.value, "name")
                            /\ NameOf(stmt.target) = NameOf(stmt.value)
                            /\ HasAttr(node, "item")
                            /\ HasAttr(node.item, "name")
         IN  VisitForeachBody(node, Tail(stmts),
                 IF increment
                 THEN Emit(Visiting(Visiting(self_, stmt.value.left),
                                    stmt.value.right),
                           visit_expr(stmt.value.left) \o " += "
                               \o visit_expr(stmt.value.right) \o "\n", "stmt")
                 ELSE IF self_assign
                 THEN Emit(self_, visit_expr(stmt.target) \o " += "
                               \o visit_expr(node.item) \o "\n", "stmt")
                 ELSE visit(stmt, self_))

visit_ForeachStatement(node, self_) ==
    LET iterator == IF HasAttr(node, "item") THEN visit_expr(node.item)
                    ELSE "item"
        collection == IF HasAttr(node, "collection")
                      THEN visit_expr(node.collection) ELSE "[]"
        s0 == IF HasAttr(node, "collection")
              THEN Visiting(self_, node.collection) ELSE self_
        s1 == Indent(Emit(s0, "for " \o iterator \o " in " \o collection
                                  \o ":\n", "header"), 1)
        s2 == IF HasAttr(node, "body") /\ Len(node.body) > 0
              THEN VisitForeachBody(node, node.body, s1)
              ELSE Emit(s1, "pass\n", "stmt")
    IN  Visited(self_, Indent(s2, -1), node)

visit_Parameter(node) ==
    IF IsNone(node) THEN "unknown_param"
    ELSE IF HasAttr(node, "name") /\ IsStr(node.name) THEN node.name.str
    ELSE IF HasAttr(node, "name") /\ HasAttr(node.name, "name")
         THEN node.name.name
    ELSE "unknown_param"

\* The docstring lines of the parameters, one per parameter.
RECURSIVE EmitParams(_, _)
EmitParams(params, self_) ==
    IF Len(params) = 0 THEN self_
    ELSE LET param == Head(params)
             param_type == IF HasAttr(param, "param_type")
                              /\ ~IsNone(param.param_type)
                           THEN visit_expr(param.param_type) ELSE "Any"
         IN  EmitParams(Tail(params),
                 Emit(self_, "    " \o visit_Parameter(param) \o ": "
                          \o param_type \o "\n", "doc"))

visit_FunctionDefinition(node, self_) ==
    LET func_name == IF IsStr(node.name) THEN node.name.str
                     ELSE node.name.name
        has_params == HasAttr(node, "params") /\ Len(node.params) > 0
        param_names == IF has_params
                       THEN [i \in 1..Len(node.params) |->
                                visit_Parameter(node.params[i])]
                       ELSE <<>>
        params_str == Join(", ", param_names)
        return_type == IF HasAttr(node, "return_type")
                          /\ ~IsNone(node.return_type)
                       THEN visit_expr(node.return_type) ELSE "None"
        s1 == Indent(Append_(self_, "", "def " \o func_name \o "("
                                 \o params_str \o ") -> " \o return_type
                                 \o ":\n", "header"), 1)
        s2 == Emit(Emit(s1, "\"\"\"\n", "doc"),
                   "Function: " \o func_name \o "\n", "doc")
        s3 == IF has_params
              THEN EmitParams(node.params, Emit(s2, "Parameters:\n", "doc"))
              ELSE s2
        s4 == Emit(Emit(s3, "Returns: " \o return_type \o "\n", "doc"),
                   "\"\"\"\n", "doc")
        old_scope == s4.scope
        old_function_params == s4.current_function_params
        names == {param_names[i] : i \in 1..Len(param_names)}
        s5 == [s4 EXCEPT !.scope = @ \cup names,
                         !.current_function_params = names]
        s6 == IF HasAttr(node, "body") /\ Len(node.body) > 0
              THEN VisitAll(node.body, s5)
              ELSE Emit(s5, "pass\n", "stmt")
        s7 == [s6 EXCEPT !.scope = old_scope,
                         !.current_function_params = old_function_params]
    IN  Visited(self_, Append_(Indent(s7, -1), "", "\n", "blank"), node)

visit_ReturnStatement(node, self_) ==
    LET value == IF HasAttr(node, "value") /\ ~IsNone(node.value)
                 THEN node.value
                 ELSE IF HasAttr(node, "expression") THEN node.expression
                 ELSE PyNone
        value_code == visit_expr(value)
    IN  IF ~IsNone(value)
        THEN Emit(Visiting(self_, value),
                  "return " \o (IF value_code \in {"None(1)", "None(-1)"}
                                THEN "-1" ELSE value_code) \o "\n", "stmt")
        ELSE Emit(self_, "return None\n", "stmt")

visit_BreakStatement(node, self_) == Emit(self_, "break\n", "stmt")

\* visit(node): the dispatch on type(node).__name__; self after the visit.
visit(node, self_) ==
    IF IsNone(node) THEN self_
    ELSE CASE node.node_type = "Program" -> visit_Program(node, self_)
           [] node.node_type = "VariableDeclaration" ->
                visit_VariableDeclaration(node, self_)
           [] node.node_type = "Assignment" -> visit_Assignment(node, self_)
           [] node.node_type = "PrintStatement" ->
                visit_PrintStatement(node, self_)
           [] node.node_type = "FunctionCallStatement" ->
                visit_FunctionCallStatement(node, self_)
           [] node.node_type = "IfStatement" -> visit_IfStatement(node, self_)
           [] node.node_type = "WhileStatement" ->
                visit_WhileStatement(node, self_)
           [] node.node_type = "ForeachStatement" ->
                visit_ForeachStatement(node, self_)
           [] node.node_type = "FunctionDefinition" ->
                visit_FunctionDefinition(node, self_)
           [] node.node_type = "ReturnStatement" ->
                visit_ReturnStatement(node, self_)
           [] node.node_type = "BreakStatement" ->
                visit_BreakStatement(node, self_)
           [] OTHER -> Visiting(self_, node)

\* generate_imports(): the lines of the preamble, joined by "\n".
generate_imports ==
    Join("\n", <<
        "from typing import Any, List, Dict, Optional, Union",
        "# Generated from Fluent code",
        "",
        "# Import Fluent standard library",
        "import sys",
        "import os",
        "# Add the backend directory to the Python path",
        "sys.path.append(os.path.dirname(os.path.abspath('__file__')))",
        "from fluent_stdlib_map import (",
        "    get_length, get_element, _set_element as set_element, get_string_length, ",
        "    split_string, concatenate_strings, integer_to_string, list_to_string,",
        "    map_has_key, get_map_value, set_map_value, get_map_keys",
        ")",
        "" >>)

\* ''.join(self.output)
RECURSIVE JoinOutput(_)
JoinOutput(output) ==
    IF Len(output) = 0 THEN ""
    ELSE Head(output).indent \o Head(output).text \o JoinOutput(Tail(output))

\* TranspileReset without its first line, self.output = [].
TranspileReset_KeepOutput(self_) ==
    Append_([self_ EXCEPT !.indent_level = 0,
                          !.levels = <<0>>, !.blocks = <<>>],
            "", generate_imports, "preamble")

\* transpile(), up to the visit of the root: the output and the indentation
\* are reset and the preamble is appended.
TranspileReset(self_) ==
    Append_([self_ EXCEPT !.output = <<>>, !.indent_level = 0,
                          !.levels = <<0>>, !.blocks = <<>>],
            "", generate_imports, "preamble")

\* transpile(), from the visit of the root on: self after the call.
TranspileVisit(ast_root, self_) == visit(ast_root, self_)

\* transpile(ast_root) as a whole, and the text it returns.
Transpile(ast_root, self_) == TranspileVisit(ast_root, TranspileReset(self_))
TextOf(self_) == JoinOutput(self_.output)

-----------------------------------------------------------------------------
(* The programs the generator is run on.  Statement sequences are built by  *)
(* size: every sequence of statements that holds at most MaxSize statement  *)
(* nodes, nested or not, over one leaf statement and the four block         *)
(* statements.  The other programs hold one statement each and vary the     *)
(* expressions, the types and the unknown nodes.                            *)

MaxSize == 2
MaxCalls == 2

A == Identifier("a")
B == Identifier("b")
One == Literal(PyInt(1), "INTEGER")
Atoms == {A, One}

BinaryOperators ==
    {"ADD", "SUB", "MUL", "DIV", "EQ", "NEQ", "LT", "LTE", "GT", "GTE",
     "AND", "OR"}
UnaryOperators == {"NEG", "NOT"}

FlatExprs ==
    {BinaryOp(l, op, r) : l \in Atoms, op \in BinaryOperators, r \in Atoms}
    \cup {UnaryOp(op, e) : op \in UnaryOperators, e \in Atoms}

NestedExprs ==
    {BinaryOp(BinaryOp(A, op1, B), op2, One) :
        op1 \in BinaryOperators, op2 \in BinaryOperators}
    \cup {BinaryOp(A, op1, BinaryOp(B, op2, One)) :
        op1 \in BinaryOperators, op2 \in BinaryOperators}

CallExprs ==
    {FunctionCall(PyStr("GET_LENGTH"), <<A>>),
     FunctionCall(PyStr("GET_ELEMENT"), <<A, One>>),
     FunctionCall(PyStr("GET_ELEMENT"), <<A>>),
     FunctionCall(PyStr("GET_ELEMENT"), <<A, One, One>>),
     FunctionCall(PyStr("SET_ELEMENT"), <<A, One, One>>),
     FunctionCall(PyStr("READ_FILE"), <<A>>),
     FunctionCall(PyStr("MYFUNC"), <<A, One>>),
     FunctionCall(PyStr("helper"), <<>>),
     FunctionCall(Identifier("GET_LENGTH"), <<A>>)}

\* Nodes no visit_<Type> exists for, and None.
UnknownNodes == {Node, Token(PyStr("tok")), PyNone}

Exprs == Atoms \cup FlatExprs \cup NestedExprs \cup CallExprs

Scalars == {Type(n) : n \in {"INTEGER", "FLOAT", "STRING", "BOOLEAN", "NULLTYPE"}}
Types ==
    Scalars \cup {ListType(Type("INTEGER")),
                  MapType(Type("STRING"), Type("INTEGER"))}

Cond == BinaryOp(A, "LT", One)
Leaf == PrintStatement(A)

RECURSIVE Bodies(_)
RECURSIVE Stmts(_)

\* The statements that hold exactly k statement nodes.
Stmts(k) ==
    (IF k = 1 THEN {Leaf} ELSE {})
    \cup {WhileStatement(Cond, b) : b \in Bodies(k - 1)}
    \cup {ForeachStatement(PyStr("item"), A, b) : b \in Bodies(k - 1)}
    \cup {FunctionDefinition(PyStr("f"), <<>>, Type("NULLTYPE"), b) :
             b \in Bodies(k - 1)}
    \cup {IfStatement(Cond, b, Absent) : b \in Bodies(k - 1)}
    \cup UNION {{IfStatement(Cond, t, Present(e)) :
                    t \in Bodies(i), e \in Bodies(k - 1 - i)} : i \in 0..(k - 1)}

\* The statement sequences that hold exactly n statement nodes.
Bodies(n) ==
    IF n = 0 THEN {<<>>}
    ELSE UNION {{<<s>> \o rest : s \in Stmts(k), rest \in Bodies(n - k)} :
                   k \in 1..n}

\* The blocks of each kind around a statement sequence.
Blocks(body) ==
    {WhileStatement(Cond, body),
     ForeachStatement(PyStr("item"), A, body),
     FunctionDefinition(PyStr("f"), <<>>, Type("NULLTYPE"), body),
     IfStatement(Cond, body, Absent),
     IfStatement(Cond, <<Leaf>>, Present(body))}

\* Three blocks inside one another, the innermost empty or with one statement.
Chains ==
    LET inner == Blocks(<<>>) \cup Blocks(<<Leaf>>)
        middle == UNION {Blocks(<<s>>) : s \in inner}
    IN  UNION {Blocks(<<s>>) : s \in middle}

\* The programs of blocks and one kind of simple statement.
StructuralPrograms ==
    {Program(b) : b \in UNION {Bodies(n) : n \in 0..MaxSize}}
    \cup {Program(<<s>>) : s \in Chains}

SimpleStmts ==
    {PrintStatement(e) : e \in Exprs \cup UnknownNodes}
    \cup {VariableDeclaration(A, t, PyNone) : t \in Types}
    \cup {VariableDeclaration(A, Type("INTEGER"), e) : e \in {One} \cup CallExprs}
    \cup {Assignment(A, e) : e \in Atoms \cup FlatExprs \cup CallExprs}
    \cup {FunctionCallStatement(e) : e \in CallExprs}
    \cup {ReturnStatement(e) : e \in {PyNone, A} \cup CallExprs}
    \cup {BreakStatement}
    \cup UnknownNodes

\* One statement of each kind inside one block of each kind.
Nested(s) ==
    {WhileStatement(Cond, <<s>>), WhileStatement(A, <<s>>),
     ForeachStatement(PyStr("item"), A, <<s>>),
     FunctionDefinition(PyStr("f"), <<Parameter(PyStr("p"), Type("INTEGER"))>>,
                        Type("INTEGER"), <<s>>),
     IfStatement(Cond, <<s>>, Absent),
     IfStatement(FunctionCall(PyStr("GET_LENGTH"), <<A>>), <<Leaf>>,
                 Present(<<s>>))}

NestedKinds ==
    {PrintStatement(FunctionCall(PyStr("GET_LENGTH"), <<A>>)),
     VariableDeclaration(A, Type("INTEGER"), PyNone),
     Assignment(A, BinaryOp(A, "ADD", One)), Assignment(A, A),
     Assignment(A, One),
     FunctionCallStatement(FunctionCall(PyStr("MYFUNC"), <<A, One>>)),
     ReturnStatement(A), BreakStatement, Node, PyNone}

\* Loops over a variable and over a list literal, with their own loop variable.
ForeachStmts ==
    {ForeachStatement(PyStr(v), e, <<PrintStatement(Identifier(v))>>) :
        v \in {"item", "x"}, e \in {A, ListLiteral(<<One, One>>)}}

\* A function with an upper-case name that is no built-in, and a call of it.
UserFunction ==
    Program(<<FunctionDefinition(PyStr("MYFUNC"), <<>>, Type("NULLTYPE"), <<>>),
              FunctionCallStatement(FunctionCall(PyStr("MYFUNC"), <<A, One>>))>>)

Programs ==
    StructuralPrograms
    \cup {UserFunction}
    \cup {Program(<<s>>) : s \in ForeachStmts}
    \cup {Program(<<s>>) : s \in SimpleStmts}
    \cup {Program(<<s>>) : s \in UNION {Nested(k) : k \in NestedKinds}}

\* What transpile() is called with: a Program, or a node that is none.
Roots == Programs \cup UnknownNodes

-----------------------------------------------------------------------------
(* The caller.  A Transpiler is constructed, transpile() is called on it    *)
(* up to MaxCalls times, and it is dropped for a new one.  pc is the        *)
(* caller's position: transpile() runs in two steps, the reset and the      *)
(* visit of the root, and nothing else runs between the two.  The reset     *)
(* does not read ast_root: the argument is drawn where the code first reads *)
(* it, at self.visit(ast_root).                                             *)

Init ==
    /\ self = __init__
    /\ pc = "idle"
    /\ ast = PyNone
    /\ result = PyNone
    /\ raised = PyNone
    /\ calls = 0
    /\ fluent_code = ""
    /\ frame = PyNone
    /\ python_code = PyNone
    /\ at = "idle"
    /\ built = PyNone

\* Transpiler(): the instance is replaced by a new one.
New ==
    /\ pc = "idle"
    /\ calls > 0
    /\ self' = __init__
    /\ ast' = PyNone
    /\ result' = PyNone
    /\ raised' = PyNone
    /\ calls' = 0
    /\ UNCHANGED <<pc, line_oriented, tree_builder>>

\* transpile(ast_root), lines 26-30.
TranspileBegin ==
    /\ pc = "idle"
    /\ calls < MaxCalls
    /\ self' = TranspileReset(self)
    /\ pc' = "visiting"
    /\ ast' = PyNone
    /\ result' = PyNone
    /\ raised' = PyNone
    /\ UNCHANGED <<calls, line_oriented, tree_builder>>

\* transpile(ast_root), lines 33-36.  No statement of transpiler.py raises:
\* on the nodes of Roots every visit returns, and so does the call.
TranspileEnd(ast_root) ==
    /\ pc = "visiting"
    /\ self' = TranspileVisit(ast_root, self)
    /\ result' = PyStr(TextOf(self'))
    /\ raised' = PyNone
    /\ ast' = ast_root
    /\ calls' = calls + 1
    /\ pc' = "idle"
    /\ UNCHANGED <<line_oriented, tree_builder>>

Next ==
    \/ New
    \/ TranspileBegin
    \/ \E ast_root \in Roots : TranspileEnd(ast_root)

Spec == Init /\ [][Next]_vars

-----------------------------------------------------------------------------
(* Properties.  Returned is the state right after a call of transpile()     *)
(* returned; Lines is the output of that call after the preamble.           *)

Returned == pc = "idle" /\ calls > 0
Ran(program) == Returned /\ ast = program

NodeTypes(blocks) == {blocks[i].node_type : i \in 1..Len(blocks)}
Max(levels) == CHOOSE m \in {levels[i] : i \in 1..Len(levels)} :
                   \A i \in 1..Len(levels) : levels[i] <= m

\* C1: every visit of an if, while, foreach or function node ends with
\* indent_level at the value it began with; indent_level is never negative
\* during the walk and is 0 when transpile() returns.
C1_IndentationBalance ==
    /\ \A i \in 1..Len(self.blocks) :
           self.blocks[i].after = self.blocks[i].before
    /\ \A i \in 1..Len(self.levels) : self.levels[i] >= 0
    /\ self.indent_level >= 0
    /\ Returned => self.indent_level = 0

\* A call returned that walked a function inside a while inside an if.
C1_Witness ==
    /\ Returned
    /\ {"IfStatement", "WhileStatement", "FunctionDefinition"}
           \subseteq NodeTypes(self.blocks)
    /\ Max(self.levels) >= 3

\* C2: every statement line and every block header is emitted with exactly
\* 4 * depth leading spaces, depth being indent_level at the time.
C2_IndentationConsistent ==
    Returned =>
        \A i \in 1..Len(self.output) :
            self.output[i].role \in {"header", "stmt"} =>
                self.output[i].indent
                    = Repeat(" ", IndentWidth * self.output[i].depth)

\* C3: in the output of a well-formed program every block header is followed
\* by a line one level deeper, also when the block's body is empty.
C3_EmptyBlockWellFormed ==
    (Returned /\ ast \in StructuralPrograms) =>
        \A i \in 1..Len(self.output) :
            self.output[i].role = "header" =>
                /\ i < Len(self.output)
                /\ self.output[i + 1].depth = self.output[i].depth + 1
                /\ self.output[i + 1].role \in {"stmt", "header", "doc"}

\* The IfStatement nodes of a statement sequence whose else branch is present.
RECURSIVE ElsePresent(_)
ElsePresent(stmts) ==
    IF Len(stmts) = 0 THEN 0
    ELSE LET stmt == Head(stmts)
         IN  ElsePresent(Tail(stmts))
             + (CASE stmt.node_type = "IfStatement" ->
                       ElsePresent(stmt.then_block)
                       + (IF IsPresent(stmt.else_block)
                          THEN 1 + ElsePresent(Get(stmt.else_block)) ELSE 0)
                  [] stmt.node_type \in {"WhileStatement", "ForeachStatement",
                                         "FunctionDefinition"} ->
                       ElsePresent(stmt.body)
                  [] OTHER -> 0)

ElseLines(output) ==
    {i \in 1..Len(output) :
        output[i].role = "header" /\ output[i].text = "else:\n"}

\* C4: an `else:` line is emitted for every IfStatement whose else branch is
\* present, empty or not, and for no other; a line one level deeper follows.
C4_ElseWhenPresent ==
    (Returned /\ ast \in StructuralPrograms) =>
        /\ Cardinality(ElseLines(self.output)) = ElsePresent(ast.statements)
        /\ \A i \in ElseLines(self.output) :
               /\ i < Len(self.output)
               /\ self.output[i + 1].depth = self.output[i].depth + 1

\* The inputs in which the visit reaches a node without a visit_<Type>: as
\* the root, as a statement, as a child of a branch, as an expression.
WithUnknown ==
    UnknownNodes
    \cup {Program(<<u>>) : u \in UnknownNodes}
    \cup {Program(<<PrintStatement(u)>>) : u \in UnknownNodes}
    \cup {Program(<<IfStatement(Cond, <<u>>, Absent)>>) : u \in {Node, PyNone}}

\* C5: a call that reaches a node without a visit_<Type> ends with a
\* CodegenError and returns no text.
C5_UnknownNodeIsError ==
    (Returned /\ ast \in WithUnknown) =>
        ~IsNone(raised) /\ IsNone(result)

\* C6: transpile() returns, on an instance with any earlier calls, the text
\* it returns for the same AST on a new instance.
C6_Deterministic ==
    Returned => result = PyStr(TextOf(Transpile(ast, __init__)))

\* The second call on an instance returned, the instance holds what an
\* earlier call on another AST left, and the AST has blocks.
C6_Witness ==
    /\ Returned
    /\ calls >= 2
    /\ self.required_imports # Transpile(ast, __init__).required_imports
    /\ Len(self.blocks) > 0

\* C7: when transpile() returns, every field but the output has the value a
\* new Transpiler has.
C7_NoCrossCallState ==
    Returned =>
        /\ self.indent_level = __init__.indent_level
        /\ self.scope = __init__.scope
        /\ self.current_function_params = __init__.current_function_params
        /\ self.required_imports = __init__.required_imports
        /\ self.imports = __init__.imports

\* The default literal of a type, in the spellings Python has for it.
DefaultLiterals(var_type) ==
    CASE var_type.node_type = "ListType" -> {"[]", "list()"}
      [] var_type.node_type = "MapType" -> {"{}", "dict()"}
      [] var_type.name = "INTEGER" -> {"0"}
      [] var_type.name = "FLOAT" -> {"0.0"}
      [] var_type.name = "STRING" -> {"''", "\"\""}
      [] var_type.name = "BOOLEAN" -> {"False"}
      [] var_type.name = "NULLTYPE" -> {"None"}

\* C8: a declaration without initializer assigns the default literal of its
\* type, with or without the annotation.
C8_DefaultValues ==
    \A t \in Types :
        Ran(Program(<<VariableDeclaration(A, t, PyNone)>>)) =>
            \E d \in DefaultLiterals(t) :
                self.output[2].text
                    \in {"a: " \o visit_expr(t) \o " = " \o d \o "\n",
                         "a = " \o d \o "\n"}

Spelling ==
    ("ADD" :> "+") @@ ("SUB" :> "-") @@ ("MUL" :> "*") @@ ("DIV" :> "/") @@
    ("EQ" :> "==") @@ ("NEQ" :> "!=") @@ ("LT" :> "<") @@ ("LTE" :> "<=") @@
    ("GT" :> ">") @@ ("GTE" :> ">=") @@ ("AND" :> "and") @@ ("OR" :> "or") @@
    ("NEG" :> "-") @@ ("NOT" :> "not ")

\* C9: each of the twelve binary and two unary operator kinds is emitted in
\* its own Python spelling, parenthesized or not.
C9_OperatorTotality ==
    /\ \A op \in BinaryOperators :
           Ran(Program(<<PrintStatement(BinaryOp(A, op, One))>>)) =>
               self.output[2].text
                   \in {"print(a " \o Spelling[op] \o " 1)\n",
                        "print((a " \o Spelling[op] \o " 1))\n"}
    /\ \A op \in UnaryOperators :
           Ran(Program(<<PrintStatement(UnaryOp(op, A))>>)) =>
               self.output[2].text
                   \in {"print(" \o Spelling[op] \o "a)\n",
                        "print((" \o Spelling[op] \o "a))\n",
                        "print(" \o Spelling[op] \o "(a))\n"}

\* The texts an operator kind may be emitted as between its operands.
OperatorTexts(op) == {Spelling[op], Lower(op)}

\* C10: a BinaryOp is emitted as (<left> <operator> <right>) in its own
\* parentheses, so that two expressions grouped differently never generate
\* the same text.
C10_Parenthesized ==
    \A e \in NestedExprs :
        Ran(Program(<<PrintStatement(e)>>)) =>
            /\ \E o \in OperatorTexts(e.operator) :
                   self.output[2].text
                       = "print((" \o visit_expr(e.left) \o " " \o o \o " "
                             \o visit_expr(e.right) \o "))\n"
            /\ \A other \in NestedExprs :
                   visit_expr(other) = visit_expr(e) => other = e

\* C11: a UnaryOp is emitted as (<operator><operand>) in its own parentheses:
\* NEG as (-<operand>), NOT as (not <operand>).
C11_UnaryParenthesized ==
    \A op \in UnaryOperators : \A e \in Atoms :
        Ran(Program(<<PrintStatement(UnaryOp(op, e))>>)) =>
            self.output[2].text
                = "print((" \o Spelling[op] \o visit_expr(e) \o "))\n"

\* The assignments of the programs, at the top level or inside a block.
Assignments ==
    {s \in SimpleStmts \cup NestedKinds : s.node_type = "Assignment"}

\* The output holds the line <indent><target> = <generated value> at depth d.
HasAssignmentLine(s, d) ==
    \E i \in 1..Len(self.output) :
        /\ self.output[i].role = "stmt"
        /\ self.output[i].indent = Repeat(" ", IndentWidth * d)
        /\ self.output[i].text
               = visit_expr(s.target) \o " = " \o visit_expr(s.value) \o "\n"

\* C12: an Assignment is emitted as the line <indent><target> = <value>,
\* the value being what the visit of the value expression returns, whatever
\* the shape of the value and whatever block encloses the assignment.
C12_AssignmentUniform ==
    \A s \in Assignments :
        /\ Ran(Program(<<s>>)) => HasAssignmentLine(s, 0)
        /\ \A block \in Nested(s) :
               Ran(Program(<<block>>)) => HasAssignmentLine(s, 1)

\* The header lines of the if and while statements of a statement sequence,
\* at any depth, each with the text the visit of its condition returns.
RECURSIVE ConditionHeaders(_)
ConditionHeaders(stmts) ==
    IF Len(stmts) = 0 THEN {}
    ELSE LET stmt == Head(stmts)
         IN  ConditionHeaders(Tail(stmts))
             \cup (CASE stmt.node_type = "IfStatement" ->
                          {"if " \o visit_expr(stmt.condition) \o ":\n"}
                          \cup ConditionHeaders(stmt.then_block)
                          \cup (IF IsPresent(stmt.else_block)
                                THEN ConditionHeaders(Get(stmt.else_block))
                                ELSE {})
                     [] stmt.node_type = "WhileStatement" ->
                          {"while " \o visit_expr(stmt.condition) \o ":\n"}
                          \cup ConditionHeaders(stmt.body)
                     [] stmt.node_type \in {"ForeachStatement",
                                            "FunctionDefinition"} ->
                          ConditionHeaders(stmt.body)
                     [] OTHER -> {})

HeaderTexts(output) ==
    {output[i].text : i \in {j \in 1..Len(output) : output[j].role = "header"}}

\* C13: the header of every if and while is if <condition>: or
\* while <condition>:, the condition being the text the visit of the
\* condition expression returns, whatever the kind of the condition.
C13_ConditionVerbatim ==
    (Returned /\ ast \in Programs) =>
        ConditionHeaders(ast.statements) \subseteq HeaderTexts(self.output)

-----------------------------------------------------------------------------
(* Renaming.  A renaming is a permutation of Names; it is applied to a      *)
(* program at every place a variable is named, and to a text at every word  *)
(* (a longest run of letters, digits and underscores) that is a name.       *)

Names == {"a", "b", "numbers"}
Renamings == {r \in [Names -> Names] : \A x, y \in Names : r[x] = r[y] => x = y}

Renamed(r, name) == IF name \in Names THEN r[name] ELSE name

RECURSIVE RenameNode(_, _)
RenameAll(r, nodes) == [i \in 1..Len(nodes) |-> RenameNode(r, nodes[i])]

RenameNode(r, node) ==
    CASE node.node_type = "Identifier" -> Identifier(Renamed(r, node.name))
      [] node.node_type = "BinaryOp" ->
            BinaryOp(RenameNode(r, node.left), node.operator,
                     RenameNode(r, node.right))
      [] node.node_type = "UnaryOp" ->
            UnaryOp(node.operator, RenameNode(r, node.operand))
      [] node.node_type = "FunctionCall" ->
            FunctionCall(node.name, RenameAll(r, node.arguments))
      [] node.node_type = "ListLiteral" ->
            ListLiteral(RenameAll(r, node.elements))
      [] node.node_type = "Program" -> Program(RenameAll(r, node.statements))
      [] node.node_type = "VariableDeclaration" ->
            VariableDeclaration(RenameNode(r, node.name), node.var_type,
                                RenameNode(r, node.initializer))
      [] node.node_type = "Assignment" ->
            Assignment(RenameNode(r, node.target), RenameNode(r, node.value))
      [] node.node_type = "PrintStatement" ->
            PrintStatement(RenameNode(r, node.expression))
      [] node.node_type = "FunctionCallStatement" ->
            FunctionCallStatement(RenameNode(r, node.function_call))
      [] node.node_type = "ReturnStatement" ->
            ReturnStatement(RenameNode(r, node.expression))
      [] node.node_type = "IfStatement" ->
            IfStatement(RenameNode(r, node.condition),
                        RenameAll(r, node.then_block),
                        IF IsPresent(node.else_block)
                        THEN Present(RenameAll(r, Get(node.else_block)))
                        ELSE Absent)
      [] node.node_type = "WhileStatement" ->
            WhileStatement(RenameNode(r, node.condition),
                           RenameAll(r, node.body))
      [] node.node_type = "ForeachStatement" ->
            ForeachStatement(PyStr(Renamed(r, node.item_name.str)),
                             RenameNode(r, node.iterable),
                             RenameAll(r, node.body))
      [] node.node_type = "FunctionDefinition" ->
            FunctionDefinition(node.name, RenameAll(r, node.params),
                               node.return_type, RenameAll(r, node.body))
      [] node.node_type = "Parameter" ->
            Parameter(PyStr(Renamed(r, node.name.str)), node.param_type)
      [] OTHER -> node

WordChars ==
    {"a", "b", "c", "d", "e", "f", "g", "h", "i", "j", "k", "l", "m", "n",
     "o", "p", "q", "r", "s", "t", "u", "v", "w", "x", "y", "z",
     "A", "B", "C", "D", "E", "F", "G", "H", "I", "J", "K", "L", "M", "N",
     "O", "P", "Q", "R", "S", "T", "U", "V", "W", "X", "Y", "Z",
     "0", "1", "2", "3", "4", "5", "6", "7", "8", "9", "_"}

\* text with r applied to its words; word is the word being read.
RECURSIVE RenameWords(_, _, _)
RenameWords(r, text, word) ==
    IF text = "" THEN Renamed(r, word)
    ELSE IF Head(text) \in WordChars
         THEN RenameWords(r, Tail(text), word \o Head(text))
    ELSE Renamed(r, word) \o Head(text) \o RenameWords(r, Tail(text), "")

RenameText(r, text) == RenameWords(r, text, "")

\* What transpile() returns after the preamble.
Generated(self_) == JoinOutput(Tail(self_.output))

\* C14: for every program and every renaming r of its variables, the text
\* generated for the renamed program is the text generated for the program
\* with r applied to the names in it; in particular the text names no
\* variable that the program does not have.
C14_RenamingPreservesShape ==
    (Returned /\ ast \in Programs) =>
        \A r \in Renamings :
            Generated(Transpile(RenameNode(r, ast), __init__))
                = RenameText(r, Generated(self))

\* self after the header for <v> in <generated e>: of a ForeachStatement at
\* the top level and the visits of its body one level deeper.
ForeachExpected(node) ==
    LET header == "for " \o node.item_name.str \o " in "
                      \o visit_expr(node.iterable) \o ":\n"
    IN  VisitAll(node.body,
                 Indent(Emit(TranspileReset(__init__), header, "header"), 1))

\* C15: a ForeachStatement with loop variable v and iterable e is emitted
\* as for <v> in <generated e>: with the node's own loop variable and
\* iterable, followed by the statements of the body in order one level
\* deeper.
C15_ForeachOwnNames ==
    (/\ Returned
     /\ ast \in Programs
     /\ Len(ast.statements) = 1
     /\ ast.statements[1].node_type = "ForeachStatement") =>
        LET expected == ForeachExpected(ast.statements[1]).output
        IN  /\ Len(self.output) >= Len(expected)
            /\ SubSeq(self.output, 1, Len(expected)) = expected

\* The calls of GET_ELEMENT with an argument count other than two.
WrongArity ==
    {c \in CallExprs : /\ CalleeName(c) = PyStr("GET_ELEMENT")
                       /\ Len(c.arguments) # 2}

\* C16: a call of GET_ELEMENT with an argument count the rewrite to indexed
\* access does not handle ends the call of transpile() with a CodegenError;
\* no text is returned for it.
C16_ArityIsError ==
    \A c \in WrongArity :
        Ran(Program(<<PrintStatement(c)>>)) =>
            ~IsNone(raised) /\ IsNone(result)

\* The calls whose callee name is upper case and no key of the mapping table.
UserCalls ==
    {c \in CallExprs : /\ IsUpper(CalleeName(c).str)
                       /\ CalleeName(c).str \notin DOMAIN FLUENT_TO_PYTHON_MAP}

\* <name>(<args>): the callee name as it is and the generated arguments.
DirectCall(c) ==
    CalleeName(c).str \o "("
        \o Join(", ", [i \in 1..Len(c.arguments) |-> visit_expr(c.arguments[i])])
        \o ")"

\* C17: a call whose callee name is upper case and not in the mapping table
\* is emitted as <name>(<args>) with the name unchanged, so that it refers to
\* the name the function's definition is generated under.
C17_UserCallUnchanged ==
    /\ \A c \in UserCalls :
           Ran(Program(<<PrintStatement(c)>>)) =>
               self.output[2].text = "print(" \o DirectCall(c) \o ")\n"
    /\ Ran(UserFunction) =>
           /\ "def MYFUNC() -> None:\n" \in HeaderTexts(self.output)
           /\ \E i \in 1..Len(self.output) :
                  /\ self.output[i].role = "stmt"
                  /\ self.output[i].text
                         = DirectCall(UserFunction.statements[2].function_call)
                               \o "\n"

-----------------------------------------------------------------------------
(* transpile_fluent.py: the line-oriented transpiler.  A line is a string;  *)
(* the str methods and the regular expressions the code applies to it are   *)
(* computed character by character.                                          *)

\* The whitespace characters of the inputs (a line holds no line break).
Whitespace == {" ", "\t"}

\* s[n:]
From(s, n) == SubSeq(s, n + 1, Len(s))

\* s.startswith(prefix)
startswith(s, prefix) ==
    Len(s) >= Len(prefix) /\ SubSeq(s, 1, Len(prefix)) = prefix

\* The length of the longest prefix of s made of the characters of chars:
\* what a greedy \s* or \w+ consumes.
RunLen(s, chars) ==
    CHOOSE n \in 0..Len(s) :
        /\ \A k \in 1..n : SubSeq(s, k, k) \in chars
        /\ n = Len(s) \/ SubSeq(s, n + 1, n + 1) \notin chars

\* s.lstrip(), s.strip()
lstrip(s) == From(s, RunLen(s, Whitespace))

strip(s) ==
    LET rstrip(left) ==
            SubSeq(left, 1,
                   CHOOSE n \in 0..Len(left) :
                       /\ \A k \in n + 1..Len(left) :
                              SubSeq(left, k, k) \in Whitespace
                       /\ n = 0 \/ SubSeq(left, n, n) \notin Whitespace)
    IN  CHOOSE stripped \in {rstrip(left) : left \in {lstrip(s)}} : TRUE

\* s.find(c) for one character c: the index of its first occurrence, from 0,
\* or -1.
find(s, c) ==
    LET found == {k \in 1..Len(s) : SubSeq(s, k, k) = c}
    IN  IF found = {} THEN -1
        ELSE (CHOOSE k \in found : \A other \in found : k <= other) - 1

\* fluent_code.splitlines(): the text up to each line break.
RECURSIVE splitlines(_)
splitlines(text) ==
    LET end == find(text, "\n")
    IN  IF text = "" THEN <<>>
        ELSE IF end = -1 THEN <<text>>
        ELSE <<SubSeq(text, 1, end)>> \o splitlines(From(text, end + 1))

\* re.match(r'^(\w+)(?:\s+(.*))?$', s): a word, then nothing or whitespace
\* and the arguments.
MatchCall(line) ==
    LET Match(s) ==
            LET word == RunLen(s, WordChars)
                rest == From(s, word)
                gap == RunLen(rest, Whitespace)
            IN  IF word >= 1 /\ (rest = "" \/ gap >= 1)
                THEN [ok |-> TRUE, func_name |-> SubSeq(s, 1, word),
                      args |-> From(rest, gap)]
                ELSE [ok |-> FALSE]
    IN  CHOOSE match \in {Match(s) : s \in {line}} : TRUE

\* \s*optional\s*([^)]+)\)(.*) matched at the start of after: the default is
\* the text up to the first ")"; when only whitespace precedes that ")", the
\* greedy \s* gives its last character back to the default.
MatchOptional(after) ==
    LET Match(keyword) ==
            LET spaced == From(keyword, Len("optional"))
                gap == RunLen(spaced, Whitespace)
                value == From(spaced, gap)
                close == find(value, ")")
            IN  IF ~startswith(keyword, "optional") \/ close = -1
                THEN [ok |-> FALSE]
                ELSE IF close > 0
                     THEN [ok |-> TRUE, default |-> SubSeq(value, 1, close),
                           rest |-> From(value, close + 1)]
                ELSE IF gap >= 1
                     THEN [ok |-> TRUE, default |-> SubSeq(spaced, gap, gap),
                           rest |-> From(value, 1)]
                ELSE [ok |-> FALSE]
    IN  CHOOSE match \in {Match(keyword) : keyword \in {lstrip(after)}} : TRUE

\* re.match(r'-\s*(\w+)\s*\((\w+)(?:\s*optional\s*([^)]+))?\)(.*)', s).
\* The type takes the longest word after which the rest matches: the
\* optional clause is tried first, then the closing parenthesis.
MatchParam(line) ==
    LET Typed(s, named, opened) ==
            LET word == RunLen(named, WordChars)
                typed == From(opened, 1)
                Fits(k) == \/ MatchOptional(From(typed, k)).ok
                           \/ startswith(From(typed, k), ")")
                lengths == {k \in 1..RunLen(typed, WordChars) : Fits(k)}
                type == CHOOSE k \in lengths : \A other \in lengths : other <= k
                optional == MatchOptional(From(typed, type))
            IN  IF ~startswith(s, "-") \/ word = 0 \/ ~startswith(opened, "(")
                   \/ lengths = {}
                THEN [ok |-> FALSE]
                ELSE IF optional.ok
                     THEN [ok |-> TRUE, param_name |-> SubSeq(named, 1, word),
                           default_value |-> PyStr(optional.default),
                           comment |-> strip(optional.rest)]
                ELSE [ok |-> TRUE, param_name |-> SubSeq(named, 1, word),
                      default_value |-> PyNone,
                      comment |-> strip(From(typed, type + 1))]
        Named(s, named) ==
            CHOOSE match \in
                {Typed(s, named, opened) :
                    opened \in {lstrip(From(named, RunLen(named, WordChars)))}} :
                TRUE
    IN  CHOOSE match \in
            {Named(s, named) : s \in {line}, named \in {lstrip(From(line, 1))}} :
            TRUE

\* re.match(keyword + r'\s+(.*?)\s+' + preposition + r'\s+(.*)', s), for
\* 'add ... to', 'reduce ... by' and 'increase ... by'.  The first \s+ is
\* greedy and the first group lazy: the match takes the longest first gap
\* and, for it, the shortest first group.
MatchPhrase(keyword, preposition, line) ==
    LET Match(s) ==
        LET first == RunLen(From(s, Len(keyword)), Whitespace)
            After(a, b) == From(s, Len(keyword) + a + b)
            Worded(text) == From(text, RunLen(text, Whitespace))
            Second(a, b) == From(Worded(After(a, b)), Len(preposition))
            Fits(a, b) ==
                /\ RunLen(After(a, b), Whitespace) >= 1
                /\ startswith(Worded(After(a, b)), preposition)
                /\ RunLen(Second(a, b), Whitespace) >= 1
            Split(splits) ==
                IF splits = {} THEN <<>>
                ELSE <<CHOOSE ab \in splits : \A other \in splits :
                           \/ other[1] < ab[1]
                           \/ other[1] = ab[1] /\ other[2] >= ab[2]>>
            Groups(split) ==
                IF ~startswith(s, keyword) \/ split = <<>> THEN [ok |-> FALSE]
                ELSE [ok |-> TRUE,
                      first |-> SubSeq(s, Len(keyword) + split[1][1] + 1,
                                       Len(keyword) + split[1][1] + split[1][2]),
                      second |-> Worded(Second(split[1][1], split[1][2]))]
        IN  CHOOSE match \in
                {Groups(Split(splits)) :
                    splits \in {{ab \in (1..first) \X (0..Len(s)) :
                                    Fits(ab[1], ab[2])}}} : TRUE
    IN  CHOOSE match \in {Match(s) : s \in {line}} : TRUE


\* The width the body of a function is indented by, in the source and in
\* the output.
BodyIndent == 4

\* The local variables of transpile() when its loop starts, lines 23-36.
\* emitted records, for each line of python_lines, the number of the input
\* line it was written for, the state and the function indentation it was
\* written in, and what it is; the code does not keep it.
Locals(code) ==
    [ python_lines |-> <<>>,
      emitted |-> <<>>,
      lines |-> splitlines(code),
      parsing_state |-> "TOP_LEVEL",
      current_function_name |-> PyNone,
      current_function_indent |-> 0,
      required_params |-> <<>>,
      optional_params |-> <<>>,
      param_comments |-> [name \in {} |-> ""],
      i |-> 0 ]

\* line = lines[i]; stripped_line; indentation, lines 38-40.
Stripped(f) == strip(f.lines[f.i + 1])
Indentation(f) == Len(f.lines[f.i + 1]) - Len(lstrip(f.lines[f.i + 1]))

\* python_lines.append(text)
Emitted(f, text, kind) ==
    [f EXCEPT !.python_lines = Append(@, text),
              !.emitted = Append(@, [line_number |-> f.i + 1,
                                     kind |-> kind,
                                     state |-> f.parsing_state,
                                     function_indent |->
                                         f.current_function_indent])]

\* The pass ends without i += 1.
Advance_Stay(f) == f

\* i += 1; continue
Advance(f) == [f EXCEPT !.i = @ + 1]

\* A blank line, lines 44-48.
BlankLine(f) ==
    Advance(IF f.parsing_state # "TOP_LEVEL" THEN Emitted(f, "", "blank")
            ELSE f)

\* TOP_LEVEL with a define that keeps the parameters collected so far.
TopLevel_NoReset(f) ==
    LET stripped_line == Stripped(f)
        expression_part == strip(From(stripped_line, 6))
        match == MatchCall(stripped_line)
    IN  Advance(
          IF startswith(stripped_line, "#") THEN Emitted(f, f.lines[f.i + 1], "comment")
          ELSE IF startswith(stripped_line, "define ")
               THEN [f EXCEPT
                       !.current_function_name =
                           PyStr(strip(From(stripped_line, 7))),
                       !.current_function_indent = Indentation(f),
                       !.parsing_state = "AWAITING_INPUTS"]
          ELSE IF startswith(stripped_line, "print ")
               THEN (IF expression_part # ""
                     THEN Emitted(f, "print(" \o expression_part \o ")", "stmt")
                     ELSE Emitted(f, "print()", "stmt"))
          ELSE IF match.ok
               THEN Emitted(f, match.func_name \o "(" \o match.args \o ")",
                           "stmt")
          ELSE f)

\* TOP_LEVEL, lines 51-92.
TopLevel(f) ==
    LET stripped_line == Stripped(f)
        expression_part == strip(From(stripped_line, 6))
        match == MatchCall(stripped_line)
    IN  Advance(
          IF startswith(stripped_line, "#") THEN Emitted(f, f.lines[f.i + 1], "comment")
          ELSE IF startswith(stripped_line, "define ")
               THEN [f EXCEPT
                       !.current_function_name =
                           PyStr(strip(From(stripped_line, 7))),
                       !.current_function_indent = Indentation(f),
                       !.parsing_state = "AWAITING_INPUTS",
                       !.required_params = <<>>,
                       !.optional_params = <<>>,
                       !.param_comments = [name \in {} |-> ""]]
          ELSE IF startswith(stripped_line, "print ")
               THEN (IF expression_part # ""
                     THEN Emitted(f, "print(" \o expression_part \o ")", "stmt")
                     ELSE Emitted(f, "print()", "stmt"))
          ELSE IF match.ok
               THEN Emitted(f, match.func_name \o "(" \o match.args \o ")",
                           "stmt")
          ELSE f)

\* AWAITING_INPUTS, lines 94-107.
AwaitingInputs(f) ==
    Advance(
      IF Stripped(f) = "inputs:"
      THEN (IF Indentation(f) > f.current_function_indent
            THEN [f EXCEPT !.parsing_state = "IN_INPUTS"]
            ELSE [f EXCEPT !.parsing_state = "TOP_LEVEL"])
      ELSE IF startswith(Stripped(f), "#") THEN f
      ELSE [f EXCEPT !.parsing_state = "TOP_LEVEL"])

\* The comments of the parameters named, in that order, lines 131-133.
RECURSIVE ParamComments(_, _)
ParamComments(f, names) ==
    IF Len(names) = 0 THEN f
    ELSE ParamComments(
             IF Head(names) \in DOMAIN f.param_comments
             THEN Emitted(f, Repeat(" ", f.current_function_indent + BodyIndent)
                                \o f.param_comments[Head(names)],
                         "param_comment")
             ELSE f,
             Tail(names))

\* The end of the inputs block with the optional parameters listed first.
EndInputs_OptionalFirst(f) ==
    LET optional_params == f.optional_params
        python_params ==
            [k \in 1..Len(optional_params) |->
                optional_params[k][1] \o "=" \o optional_params[k][2]]
                \o f.required_params
        def_line == Repeat(" ", f.current_function_indent) \o "def "
                        \o Str(f.current_function_name)
                        \o "(" \o Join(", ", python_params) \o "):"
    IN  [Emitted(f, def_line, "def") EXCEPT !.parsing_state = "IN_FUNCTION_BODY"]

\* The end of the inputs block, lines 125-138: the def line, the comments
\* of the parameters; the line read is read again as a body line.
EndInputs(f) ==
    LET optional_params == f.optional_params
        python_params ==
            f.required_params
                \o [k \in 1..Len(optional_params) |->
                       optional_params[k][1] \o "=" \o optional_params[k][2]]
        def_line == Repeat(" ", f.current_function_indent) \o "def "
                        \o Str(f.current_function_name)
                        \o "(" \o Join(", ", python_params) \o "):"
        names == f.required_params
                     \o [k \in 1..Len(optional_params) |->
                            optional_params[k][1]]
    IN  [ParamComments(Emitted(f, def_line, "def"), names)
            EXCEPT !.parsing_state = "IN_FUNCTION_BODY"]

\* A parameter line of the inputs block, lines 146-158.
ParameterLine(f) ==
    LET Matched(param_match) ==
            LET param_name == param_match.param_name
                comment == param_match.comment
                commented ==
                    IF comment # "" /\ startswith(comment, "#")
                    THEN [f EXCEPT !.param_comments =
                                       (param_name :> comment) @@ @]
                    ELSE f
            IN  IF ~param_match.ok THEN f
                ELSE IF ~IsNone(param_match.default_value)
                     THEN [commented EXCEPT !.optional_params =
                              Append(@, <<param_name,
                                          param_match.default_value.str>>)]
                ELSE [commented EXCEPT !.required_params =
                         Append(@, param_name)]
    IN  CHOOSE after \in {Matched(param_match) :
                             param_match \in {MatchParam(Stripped(f))}} : TRUE

\* IN_INPUTS, lines 109-176.
InInputs(f) ==
    LET is_parameter_line == startswith(Stripped(f), "-")
        is_comment == startswith(Stripped(f), "#")
        is_still_indented == Indentation(f) > f.current_function_indent
    IN  IF \/ ~is_still_indented
           \/ is_still_indented /\ ~is_parameter_line /\ ~is_comment
        THEN EndInputs(f)
        ELSE IF is_parameter_line
             THEN Advance(IF ~is_still_indented THEN f ELSE ParameterLine(f))
        ELSE IF is_comment
             THEN (IF is_still_indented THEN Advance(f)
                   ELSE [f EXCEPT !.parsing_state = "IN_FUNCTION_BODY",
                                  !.i = @ - 1])
        ELSE Advance(f)

\* One line of a function body at python_indent, lines 198-279.
BodyLine(f, python_indent) ==
    LET Translated(stripped_line) ==
            LET initialized == From(stripped_line, 11)
                equals == find(initialized, "=")
                add == MatchPhrase("add", "to", stripped_line)
                reduce == MatchPhrase("reduce", "by", stripped_line)
                increase == MatchPhrase("increase", "by", stripped_line)
                hash == find(stripped_line, "#")
                expression_part == strip(From(stripped_line, 6))
                Indented(text, kind) == Emitted(f, python_indent \o text, kind)
            IN  IF startswith(stripped_line, "#") THEN Indented(stripped_line, "comment")
                ELSE IF startswith(stripped_line, "initialize ")
                     THEN (IF equals # -1
                           THEN Indented(strip(SubSeq(initialized, 1, equals)) \o " = "
                                          \o strip(From(initialized, equals + 1)),
                                      "stmt")
                           ELSE f)
                ELSE IF startswith(stripped_line, "for each ")
                     THEN Indented("for " \o From(stripped_line, 9), "header")
                ELSE IF startswith(stripped_line, "add ")
                     THEN (IF add.ok
                           THEN Indented(add.second \o " += " \o add.first, "stmt")
                           ELSE f)
                ELSE IF startswith(stripped_line, "reduce ")
                     THEN (IF reduce.ok
                           THEN Indented(reduce.first \o " -= " \o reduce.second, "stmt")
                           ELSE f)
                ELSE IF startswith(stripped_line, "increase ")
                     THEN (IF increase.ok
                           THEN Indented(increase.first \o " += " \o increase.second,
                                      "stmt")
                           ELSE f)
                ELSE IF startswith(stripped_line, "if ")
                     THEN Indented(stripped_line, "header")
                ELSE IF startswith(stripped_line, "elif ")
                     THEN Indented(stripped_line, "header")
                ELSE IF startswith(stripped_line, "else:")
                     THEN (IF hash # -1
                           THEN Indented("else: " \o From(stripped_line, hash), "header")
                           ELSE Indented("else:", "header"))
                ELSE IF startswith(stripped_line, "print ")
                     THEN (IF expression_part # ""
                           THEN Indented("print(" \o expression_part \o ")", "stmt")
                           ELSE Indented("print()", "stmt"))
                ELSE IF startswith(stripped_line, "return ")
                     THEN Indented(stripped_line, "stmt")
                ELSE f
    IN  CHOOSE after \in {Translated(stripped_line) :
                             stripped_line \in {Stripped(f)}} : TRUE

\* IN_FUNCTION_BODY with every body line written at the base indentation.
InFunctionBody_Flat(f) ==
    IF Indentation(f) < f.current_function_indent
    THEN [f EXCEPT !.parsing_state = "TOP_LEVEL"]
    ELSE IF /\ Indentation(f) = f.current_function_indent
            /\ ~startswith(Stripped(f), "#")
         THEN [f EXCEPT !.parsing_state = "TOP_LEVEL"]
    ELSE Advance(BodyLine(f, Repeat(" ", BodyIndent)))

\* IN_FUNCTION_BODY, lines 178-282.
InFunctionBody(f) ==
    LET base_body_indent == f.current_function_indent + BodyIndent
        rel_indent == IF Indentation(f) - base_body_indent > 0
                      THEN Indentation(f) - base_body_indent ELSE 0
        python_indent == Repeat(" ", BodyIndent + rel_indent)
    IN  IF Indentation(f) < f.current_function_indent
        THEN [f EXCEPT !.parsing_state = "TOP_LEVEL"]
        ELSE IF /\ Indentation(f) = f.current_function_indent
                /\ ~startswith(Stripped(f), "#")
             THEN [f EXCEPT !.parsing_state = "TOP_LEVEL"]
        ELSE Advance(BodyLine(f, python_indent))


-----------------------------------------------------------------------------
(* The inputs of the line-oriented transpiler: Fluent programs of one or    *)
(* two functions.  A function is `define <name>`, an inputs block of        *)
(* parameter declarations and a body, as in tests/test_transpiler.py and    *)
(* the example of transpile_fluent.py.                                       *)

MaxParams == 2     \* the lines of an inputs block
MaxBody == 2       \* the lines of a body

\* The sequences over items of length at most n.
RECURSIVE SeqsUpTo(_, _)
SeqsUpTo(items, n) ==
    IF n = 0 THEN {<<>>}
    ELSE LET shorter == SeqsUpTo(items, n - 1)
         IN  shorter \cup {Append(body, item) : body \in shorter, item \in items}

\* Every line of lines indented by width more spaces.
Shifted(lines, width) ==
    [k \in 1..Len(lines) |->
        IF strip(lines[k]) = "" THEN lines[k]
        ELSE Repeat(" ", width) \o lines[k]]

\* fluent_code: the lines, each ended by a line break.
Code(lines) == Join("", [k \in 1..Len(lines) |-> lines[k] \o "\n"])

\* The parameter declarations: a name, a type, a default when the parameter
\* is optional, and a trailing comment or none.
Declarations ==
    { [name |-> "value", type |-> "number", default |-> PyNone,
       comment |-> ""],
      [name |-> "x", type |-> "number", default |-> PyNone,
       comment |-> "# Parameter comment"],
      [name |-> "name", type |-> "string", default |-> PyStr("\"World\""),
       comment |-> ""],
      [name |-> "low_threshold", type |-> "number", default |-> PyStr("10"),
       comment |-> "# lower limit"] }

\* The line that declares d: - name (type), - name (type optional default).
ParamLine(d) ==
    "- " \o d.name \o " (" \o d.type
        \o (IF IsNone(d.default) THEN "" ELSE " optional " \o d.default.str)
        \o ")" \o (IF d.comment = "" THEN "" ELSE " " \o d.comment)

\* What an inputs block holds: declarations, a full-line comment, a line
\* that declares nothing.
InputsBlocks ==
    SeqsUpTo({ParamLine(d) : d \in Declarations}
                 \cup {"# about the inputs", "- unfinished"},
             MaxParams)

\* The bodies: lines at the base indentation or one level deeper; and the
\* other statements, the malformed ones, an else followed by a statement,
\* lines left of the base indentation, alone and under an if.
FunctionBodies ==
    LET core == { "# Function body comment", "if value > 10:",
                  "elif value < 10:", "else:", "else:  # otherwise",
                  "initialize result = \"less\"", "add num to total",
                  "return result" }
        others == { "    else: # otherwise", "    else: return 0",
                    "    for each num in numbers:", "    reduce total by 1",
                    "    increase total by num", "    print result",
                    "    print  \"a\" ", "    launch now",
                    "    initialize result", "    add num total",
                    "    reduce total 1", "    increase total",
                    "  # shallow comment", "# comment at the margin",
                    "\treturn value", "    add 1 to count",
                    "        add a + b to total",
                    "        for each item in items:",
                    "    for each key in get_keys(m):" }
    IN  SeqsUpTo({Repeat(" ", indent) \o text :
                     indent \in {4, 8}, text \in core}, MaxBody)
        \cup {<<other>> : other \in others}
        \cup {<<"    if value > 10:", other>> : other \in others}

\* define greet, its inputs block and its body.
Function(block, body) ==
    <<"define greet", "    inputs:">> \o Shifted(block, 8) \o body

\* The programs of tests/test_transpiler.py, lines 20-30, 42-50 and 59-73;
\* then comments in each parser state, functions cut short, a function that
\* is itself indented, statements at the top level, two functions.
WholePrograms ==
    { <<"", "define greet", "    inputs:",
        "        - name (string optional \"World\")", "    ",
        "    initialize greeting = \"Hello, \" + name + \"!\"",
        "    print greeting", "    return greeting", "", "greet">>,
      <<"", "# Top level comment", "define example", "    inputs:",
        "        - x (number) # Parameter comment", "    ",
        "    # Function body comment", "    return x">>,
      <<"", "define check_value", "    inputs:", "        - value (number)",
        "    ", "    if value > 10:",
        "        initialize result = \"greater\"",
        "    elif value < 10:", "        initialize result = \"less\"",
        "    else:", "        initialize result = \"equal\"", "    ",
        "    return result">>,
      <<"# Top level comment", "define greet", "    # before the inputs",
        "    inputs:", "        # about the inputs", "        - x (number)",
        "    # Function body comment", "    return x">>,
      <<"define greet", "    # before the inputs", "", "    inputs:",
        "        - x (number)", "    return x", "# Top level comment",
        "greet 1">>,
      <<"define greet", "    inputs:", "        - x (number)">>,
      <<"define greet", "inputs:", "    return 1">>,
      <<"define greet", "    return 1", "greet">>,
      <<"define greet", "    inputs:", "    - x (number)", "    return x">>,
      <<"define greet", "    inputs:", "        - x (number)", "",
        "        - y (number)", "- z (number)", "    return x">>,
      <<"print \"start\"", "print  ", "greet \"World\"", "greet a, b",
        "greet(a)", "  # indented comment">>,
      Shifted(Function(<<"- x (number) # Parameter comment">>,
                       <<"    if x:", "        return x", "    else:",
                         "        return 0">>), 2),
      Function(<<"- a (number)">>, <<"    return a">>)
          \o <<"", "# Another function">>
          \o Function(<<"- b (number optional 0)">>, <<"    return b">>),
      Shifted(Function(<<"- x (number) # Parameter comment">>,
                       <<"    # Function body comment", "    return x">>), 4),
      Function(<<"- x (number) # Parameter comment">>, <<>>)
          \o Function(<<"- y (number optional 0)">>, <<"    return y">>),
      Function(<<"- x (number) # Parameter comment">>, <<"    return x">>)
          \o <<"define greet", "    return 1">>
          \o Function(<<"# about the inputs">>, <<"    return 0">>),
      <<"define greet", "    inputs:", "        - x (number)", "", "">> }

FluentPrograms ==
    {Code(Function(block, <<"", "    return 0">>)) : block \in InputsBlocks}
    \cup {Code(Function(<<"- value (number)">>, body)) : body \in FunctionBodies}
    \cup {Code(lines) : lines \in WholePrograms}

-----------------------------------------------------------------------------
(* transpile(fluent_code): one action for each pass of the while loop, by   *)
(* the state the line is read in.                                            *)

\* transpile(fluent_code) is called, lines 23-36.
Call(code) ==
    /\ at = "idle"
    /\ fluent_code' = code
    /\ frame' = Locals(code)
    /\ python_code' = PyNone
    /\ at' = "loop"
    /\ UNCHANGED <<backend, tree_builder>>

\* A pass of the loop: i < len(lines), and the line is blank or is read in
\* the parsing state.
ReadBlank ==
    /\ at = "loop"
    /\ frame.i < Len(frame.lines)
    /\ Stripped(frame) = ""
    /\ frame' = BlankLine(frame)
    /\ UNCHANGED <<fluent_code, python_code, at, backend, tree_builder>>

ReadTopLevel ==
    /\ at = "loop"
    /\ frame.i < Len(frame.lines)
    /\ Stripped(frame) # "" /\ frame.parsing_state = "TOP_LEVEL"
    /\ frame' = TopLevel(frame)
    /\ UNCHANGED <<fluent_code, python_code, at, backend, tree_builder>>

ReadAwaitingInputs ==
    /\ at = "loop"
    /\ frame.i < Len(frame.lines)
    /\ Stripped(frame) # "" /\ frame.parsing_state = "AWAITING_INPUTS"
    /\ frame' = AwaitingInputs(frame)
    /\ UNCHANGED <<fluent_code, python_code, at, backend, tree_builder>>

ReadInInputs ==
    /\ at = "loop"
    /\ frame.i < Len(frame.lines)
    /\ Stripped(frame) # "" /\ frame.parsing_state = "IN_INPUTS"
    /\ frame' = InInputs(frame)
    /\ UNCHANGED <<fluent_code, python_code, at, backend, tree_builder>>

ReadInFunctionBody ==
    /\ at = "loop"
    /\ frame.i < Len(frame.lines)
    /\ Stripped(frame) # "" /\ frame.parsing_state = "IN_FUNCTION_BODY"
    /\ frame' = InFunctionBody(frame)
    /\ UNCHANGED <<fluent_code, python_code, at, backend, tree_builder>>

\* The loop ends: return '\n'.join(python_lines), lines 285-286.
Return ==
    /\ at = "loop"
    /\ frame.i >= Len(frame.lines)
    /\ python_code' = PyStr(Join("\n", frame.python_lines))
    /\ at' = "returned"
    /\ UNCHANGED <<fluent_code, frame, backend, tree_builder>>

LineNext ==
    \/ \E code \in FluentPrograms : Call(code)
    \/ ReadBlank
    \/ ReadTopLevel
    \/ ReadAwaitingInputs
    \/ ReadInInputs
    \/ ReadInFunctionBody
    \/ Return

LineSpec == Init /\ [][LineNext]_vars

\* A call that has begun runs on: the while loop is sequential code, so a
\* pass that can be made, or the return, is made.
LineFairSpec ==
    LineSpec /\ WF_vars(ReadBlank \/ ReadTopLevel \/ ReadAwaitingInputs
                           \/ ReadInInputs \/ ReadInFunctionBody \/ Return)


-----------------------------------------------------------------------------------------------------------------------------------------------------
(* Properties of the line-oriented transpiler, stated where                 *)
(* transpile(fluent_code) has returned; frame holds its last locals.        *)

\* The declarations of an inputs block, in the order of its lines; the
\* other lines of the block declare nothing.
RECURSIVE Declared(_)
Declared(block) ==
    IF Len(block) = 0 THEN <<>>
    ELSE LET declared == {d \in Declarations : ParamLine(d) = Head(block)}
         IN  (IF declared = {} THEN <<>> ELSE <<CHOOSE d \in declared : TRUE>>)
                 \o Declared(Tail(block))

\* The parameter list the declarations ask for: the names declared without
\* optional, then name=default for those declared optional.
Signature(declarations) ==
    LET Pick(optional) ==
            SelectSeq(declarations, LAMBDA d : IsNone(d.default) # optional)
        required == Pick(FALSE)
        defaulted == Pick(TRUE)
    IN  Join(", ",
             [k \in 1..Len(required) |-> required[k].name]
                 \o [k \in 1..Len(defaulted) |->
                        defaulted[k].name \o "=" \o defaulted[k].default.str])

\* C18: the def line of a function lists each declaration of the function's
\* inputs block once: the parameters declared without optional by their
\* names, in the order declared, then those declared optional as
\* name=default, in the order declared.
C18_DefLineListsParameters ==
    \A block \in InputsBlocks :
        (/\ at = "returned"
         /\ fluent_code = Code(Function(block, <<"", "    return 0">>)))
            => {frame.python_lines[k] :
                    k \in {j \in 1..Len(frame.emitted) :
                              frame.emitted[j].kind = "def"}}
                   = {"def greet(" \o Signature(Declared(block)) \o "):"}

\* C18 witness: an optional parameter declared before a required one; the
\* def line lists the required one first.
C18_Witness ==
    /\ at = "returned"
    /\ fluent_code = Code(Function(<<"- name (string optional \"World\")",
                                     "- value (number)">>,
                                   <<"", "    return 0">>))
    /\ frame.python_lines[2] = "def greet(value, name=\"World\"):"

\* sub in text
Contains(text, sub) ==
    \E k \in 1..Len(text) - Len(sub) + 1 :
        SubSeq(text, k, k + Len(sub) - 1) = sub

\* C19: every comment of the input appears in the output text: the
\* full-line comments read at the top level, between define and inputs:,
\* inside the inputs block and inside a function body, and the comment that
\* ends a parameter line.
C19_CommentsPreserved ==
    at = "returned" =>
        \A k \in 1..Len(frame.lines) :
            LET line == strip(frame.lines[k])
            IN  /\ startswith(line, "#") => Contains(python_code.str, line)
                /\ (startswith(line, "-") /\ find(line, "#") # -1)
                       => Contains(python_code.str,
                                   From(line, find(line, "#")))

\* C20: every if, elif and else: line of a function body is emitted with
\* its text unchanged, and two body lines at source indentations i1 < i2,
\* both at least the base indentation of the body, are emitted i2 - i1
\* apart, the base at four spaces.
C20_ConditionalsVerbatim ==
    LET written == frame.emitted
        body == {k \in 1..Len(written) :
                    /\ written[k].state = "IN_FUNCTION_BODY"
                    /\ written[k].kind # "blank"}
        Source(k) == frame.lines[written[k].line_number]
        Column(line) == RunLen(line, Whitespace)
    IN  at = "returned" =>
            /\ \A k \in body :
                   (\/ startswith(strip(Source(k)), "if ")
                    \/ startswith(strip(Source(k)), "elif ")
                    \/ startswith(strip(Source(k)), "else:"))
                       => lstrip(frame.python_lines[k]) = strip(Source(k))
            /\ \A j, k \in body :
                   (/\ written[k].function_indent = written[j].function_indent
                    /\ written[j].function_indent + BodyIndent
                           <= Column(Source(j))
                    /\ Column(Source(j)) < Column(Source(k)))
                       => /\ Column(frame.python_lines[k])
                                 - Column(frame.python_lines[j])
                              = Column(Source(k)) - Column(Source(j))
                          /\ Column(Source(j))
                                 = written[j].function_indent + BodyIndent
                              => Column(frame.python_lines[j]) = BodyIndent

\* C21: a body line `for each <x> in <y>:` is emitted as `for <x> in <y>:`
\* and a body line `add <v> to <t>` as `<t> += <v>`, each at the Python
\* indentation of its source line: four spaces, and as many more as the
\* line stands right of the base indentation of the body.
C21_LoopsAndAdd ==
    LET written == frame.emitted
        Source(k) == frame.lines[written[k].line_number]
        PythonIndent(k) ==
            LET rel == RunLen(Source(k), Whitespace)
                           - (written[k].function_indent + BodyIndent)
            IN  Repeat(" ", BodyIndent + (IF rel > 0 THEN rel ELSE 0))
        Is(k, text) ==
            /\ written[k].state = "IN_FUNCTION_BODY"
            /\ strip(Source(k)) = text
    IN  at = "returned" =>
            \A n \in 1..Len(frame.lines) :
                /\ \A x \in {"num", "item", "key"} :
                   \A y \in {"numbers", "items", "get_keys(m)"} :
                       strip(frame.lines[n]) = "for each " \o x \o " in " \o y \o ":"
                           => \E k \in 1..Len(written) :
                                  /\ written[k].line_number = n
                                  /\ frame.python_lines[k]
                                         = PythonIndent(k) \o "for " \o x
                                               \o " in " \o y \o ":"
                /\ \A v \in {"num", "1", "a + b"} :
                   \A t \in {"total", "count"} :
                       strip(frame.lines[n]) = "add " \o v \o " to " \o t
                           => \E k \in 1..Len(written) :
                                  /\ written[k].line_number = n
                                  /\ frame.python_lines[k]
                                         = PythonIndent(k) \o t \o " += " \o v

\* C21 witness: under an if, an add line one level deeper than the base is
\* written eight spaces in, target first.
C21_Witness ==
    /\ at = "returned"
    /\ fluent_code = Code(Function(<<"- value (number)">>,
                                   <<"    if value > 10:",
                                     "        add a + b to total">>))
    /\ frame.python_lines[3] = "        total += a + b"


-----------------------------------------------------------------------------
(* src/backend/ast_transformer.py: the rules of ASTTransformer.  A rule is  *)
(* called with the children of a parse-tree node (@v_args(inline=True)):    *)
(* nodes the rules below it returned, tokens of the parser, plain strings   *)
(* (eq() ... gte() return one).  A token is Token(value); a Python list is  *)
(* a sequence, a Python tuple the record [tuple |-> items].  The operator   *)
(* field of a BinaryOp or UnaryOp holds the Python str the rule put there.  *)
(* The grammar is not part of the sources: rules are called with the       *)
(* children each rule's code distinguishes.                                 *)

\* isinstance(v, Token), isinstance(v, ast.<class>)
isinstance(v, class) == HasAttr(v, "node_type") /\ v.node_type = class

\* get_val, lines 6-7.
get_val(item) == IF isinstance(item, "Token") THEN item.value ELSE item

\* str(op).strip(), lines 114, 254, 279: a token is a str, its text its value.
op_str(op) == strip(IF isinstance(op, "Token") THEN op.value.str ELSE Str(op))

\* What a call of a rule leaves: the node it returned, or the error raised.
Returns(rule, args, node) ==
    [rule |-> rule, args |-> args, returned |-> node, raised |-> PyNone]
Raises(rule, args, error) ==
    [rule |-> rule, args |-> args, returned |-> PyNone, raised |-> PyStr(error)]

\* The operator children: the spellings the rules test for and two they do
\* not, each as a token and as a plain string.
OperatorChildren ==
    LET spellings == {"+", "-", "*", "/", "%", "NOT", "!", "AND", "OR"}
    IN  {Token(PyStr(t)) : t \in spellings} \cup {PyStr(t) : t \in spellings}

\* The operand children: what NUMBER, FLOAT_NUMBER, STRING_LITERAL,
\* BOOLEAN_LITERAL and IDENTIFIER (lines 347-355) and factor return.
Operands ==
    {A, One, Literal(PyInt(0), "INTEGER"), Literal(PyFloat(2, 5), "FLOAT"),
     Literal(PyStr("s"), "STRING"), Literal(PyBool(TRUE), "BOOLEAN"),
     UnaryOp("NEG", A)}

\* The statement children: among them an assignment whose value is still a
\* tuple (left, op, right), lines 32-33 and 108-109.
StatementChildren ==
    {Leaf, BreakStatement, Assignment(A, One)}
    \cup {Assignment(A, [tuple |-> <<A, op, One>>]) :
             op \in {Token(PyStr(t)) : t \in {"+", "-", "*", "/", "%"}}}

\* The most children after the condition an if_statement is called with.
MaxChildren == 3

\* The token the rule looks for, line 62.
ELSE_token == Token(PyStr("ELSE"))

\* if_statement, lines 54-82.
if_statement ==
    \E args \in {<<Cond>> \o rest :
                    rest \in SeqsUpTo({Leaf, BreakStatement, ELSE_token,
                                       PyStr("ELSE")}, MaxChildren)} :
        LET found == {i \in 2..Len(args) :
                         isinstance(args[i], "Token")
                             /\ get_val(args[i]) = PyStr("ELSE")}
            else_index == IF found = {} THEN -1
                          ELSE CHOOSE i \in found : \A j \in found : i <= j
            then_stmts ==
                IF Len(args) < 2 THEN <<>>
                ELSE IF else_index # -1 THEN SubSeq(args, 2, else_index - 1)
                ELSE SubSeq(args, 2, Len(args))
            \* else_block is None without an ELSE: [else_block] if else_block
            \* else [] is then [], and list(()) of an empty else is [] too.
            else_stmts ==
                IF Len(args) >= 2 /\ else_index # -1
                THEN SubSeq(args, else_index + 1, Len(args))
                ELSE <<>>
        IN  /\ built' = Returns("if_statement", args,
                                IfStatement(args[1], then_stmts,
                                            Present(else_stmts)))
            /\ UNCHANGED <<backend, line_oriented>>

\* foreach_statement, lines 95-131.
foreach_statement ==
    \E args \in {SubSeq(<<Token(PyStr("item")), A, first, second>>, 1, n) :
                    n \in 0..4, first \in StatementChildren,
                    second \in {Leaf, Assignment(A, [tuple |-> <<A, PyStr(" + "), One>>])}} :
        LET Rewritten_(stmt) ==
                IF /\ isinstance(stmt, "Assignment")
                   /\ HasAttr(stmt.value, "tuple")
                   /\ Len(stmt.value.tuple) >= 3
                THEN LET left == stmt.value.tuple[1]
                         op == stmt.value.tuple[2]
                         right == stmt.value.tuple[3]
                         is(text) == \/ op_str(op) = text
                                     \/ HasAttr(op, "value") /\ op.value = PyStr(text)
                     IN  IF is("+") THEN Assignment(stmt.target, BinaryOp(left, "ADD", right))
                         ELSE IF is("-") THEN Assignment(stmt.target, BinaryOp(left, "SUB", right))
                         ELSE IF is("*") THEN Assignment(stmt.target, BinaryOp(left, "MUL", right))
                         ELSE IF is("/") THEN Assignment(stmt.target, BinaryOp(left, "DIV", right))
                         ELSE stmt
                ELSE stmt
        IN  /\ built' =
                   IF Len(args) < 3
                   THEN Returns("foreach_statement", args,
                                ForeachStatement(PyStr(""), PyNone, <<>>))
                   ELSE Returns("foreach_statement", args,
                                ForeachStatement(args[1], args[2],
                                    [k \in 1..(Len(args) - 2) |->
                                        Rewritten_(args[k + 2])]))
            /\ UNCHANGED <<backend, line_oriented>>

\* parameter, lines 167-179.
parameter ==
    \E args \in {SubSeq(<<PyStr("PARAM"), name, param_type, param_type>>, m, n) :
                    m \in 1..2, n \in 0..4,
                    name \in {Token(PyStr("x")), PyStr("y")},
                    param_type \in Types} :
        /\ built' =
               IF Len(args) = 2
               THEN Returns("parameter", args,
                            Parameter(get_val(args[1]), args[2]))
               ELSE IF Len(args) = 3
               THEN Returns("parameter", args,
                            Parameter(get_val(args[2]), args[3]))
               ELSE Raises("parameter", args, "ValueError")
        /\ UNCHANGED <<backend, line_oriented>>

\* The children of a rule declared (self, left, op=None, right=None).
Operation ==
    {<<left>> : left \in Operands}
    \cup {<<left, op>> : left \in Operands, op \in OperatorChildren}
    \cup {<<left, op, right>> :
             left \in Operands, op \in OperatorChildren, right \in {A, One}}

\* logical_or, lines 211-214.
logical_or ==
    \E args \in Operation :
        /\ built' = IF Len(args) < 3
                    THEN Returns("logical_or", args, args[1])
                    ELSE Returns("logical_or", args,
                                 BinaryOp(args[1], "OR", args[3]))
        /\ UNCHANGED <<backend, line_oriented>>

\* logical_and, lines 216-219.
logical_and ==
    \E args \in Operation :
        /\ built' = IF Len(args) < 3
                    THEN Returns("logical_and", args, args[1])
                    ELSE Returns("logical_and", args,
                                 BinaryOp(args[1], "AND", args[3]))
        /\ UNCHANGED <<backend, line_oriented>>

\* eq, neq, lt, gt, lte, gte, lines 221-237: each returns a str.
ComparisonChildren == {PyStr(t) : t \in {"==", "!=", "<", ">", "<=", ">="}}

\* comparison, lines 239-243: ast_nodes defines no class Comparison, so the
\* attribute lookup ast.Comparison raises.
comparison ==
    \E left \in Operands, op \in ComparisonChildren, right \in {A, One} :
        /\ built' = Raises("comparison", <<left, op, right>>, "AttributeError")
        /\ UNCHANGED <<backend, line_oriented>>

\* arith_expr, lines 245-266.
arith_expr ==
    \E args \in Operation :
        LET left == args[1]
            op == args[2]
            right == args[3]
            op_val == IF HasAttr(op, "value") THEN get_val(op).str
                      ELSE op_str(op)
        IN  /\ built' =
                   IF Len(args) < 3 THEN Returns("arith_expr", args, left)
                   ELSE IF op_val = "+"
                   THEN Returns("arith_expr", args, BinaryOp(left, "ADD", right))
                   ELSE IF op_val = "-"
                   THEN Returns("arith_expr", args, BinaryOp(left, "SUB", right))
                   ELSE IF op_val = "*"
                   THEN Returns("arith_expr", args, BinaryOp(left, "MUL", right))
                   ELSE IF op_val = "/"
                   THEN Returns("arith_expr", args, BinaryOp(left, "DIV", right))
                   ELSE Returns("arith_expr", args, BinaryOp(left, op_val, right))
            /\ UNCHANGED <<backend, line_oriented>>

\* term, lines 268-271.
term ==
    \E args \in Operation :
        /\ built' = IF Len(args) < 3
                    THEN Returns("term", args, args[1])
                    ELSE Returns("term", args,
                                 BinaryOp(args[1], get_val(args[2]).str, args[3]))
        /\ UNCHANGED <<backend, line_oriented>>

\* factor, lines 273-291.
factor ==
    \E args \in {<<operand>> : operand \in Operands}
                \cup {<<op, operand>> :
                         op \in OperatorChildren, operand \in Operands}
                \cup {<<Token(PyStr("-")), One, One>>} :
        LET op == args[1]
            operand == args[2]
        IN  /\ built' =
                   IF Len(args) = 1 THEN Returns("factor", args, args[1])
                   ELSE IF Len(args) # 2
                   THEN Raises("factor", args, "ValueError")
                   ELSE IF /\ op_str(op) = "-"
                           /\ isinstance(operand, "Literal")
                           /\ operand.type = "INTEGER"
                   THEN Returns("factor", args,
                                Literal(PyInt(-operand.value.int), "INTEGER"))
                   ELSE IF op_str(op) = "-"
                   THEN Returns("factor", args, UnaryOp("NEG", operand))
                   ELSE IF op_str(op) = "NOT" \/ op_str(op) = "!"
                   THEN Returns("factor", args, UnaryOp("NOT", operand))
                   ELSE Returns("factor", args,
                                UnaryOp(get_val(op).str, operand))
            /\ UNCHANGED <<backend, line_oriented>>

BuildNext ==
    \/ if_statement
    \/ foreach_statement
    \/ parameter
    \/ logical_or
    \/ logical_and
    \/ comparison
    \/ arith_expr
    \/ term
    \/ factor

BuildSpec == Init /\ [][BuildNext]_vars


-----------------------------------------------------------------------------
(* Properties of the tree builder, stated of the last call of a rule.       *)

\* C22: if_statement() yields an IfStatement whose else_block is the absent
\* marker (None) when its children hold no ELSE token, and the ordered list
\* of the statements after the ELSE token, possibly empty, when they hold
\* one; the two cases yield different nodes.
C22_ElseNormalized ==
    HasAttr(built, "rule") /\ built.rule = "if_statement" =>
        LET args == built.args
            found == {i \in 2..Len(args) : args[i] = ELSE_token}
        IN  IF found = {}
            THEN built.returned.else_block = Absent
            ELSE /\ IsPresent(built.returned.else_block)
                 /\ \E i \in found :
                        /\ \A j \in found : i <= j
                        /\ Get(built.returned.else_block)
                               = SubSeq(args, i + 1, Len(args))

\* C23: factor() called with a negation and an INTEGER or FLOAT literal
\* returns one Literal of the same type holding the negated value, never a
\* UnaryOp; called with a negation and any other operand it returns
\* UnaryOp(NEG, operand).
C23_NegationFolded ==
    ( /\ HasAttr(built, "rule") /\ built.rule = "factor"
      /\ Len(built.args) = 2
      /\ op_str(built.args[1]) = "-" ) =>
        LET operand == built.args[2]
        IN  IF isinstance(operand, "Literal") /\ operand.type = "INTEGER"
            THEN built.returned
                     = Literal(PyInt(-operand.value.int), "INTEGER")
            ELSE IF isinstance(operand, "Literal") /\ operand.type = "FLOAT"
            THEN built.returned
                     = Literal(PyFloat(-operand.value.float_int,
                                       operand.value.float_frac), "FLOAT")
            ELSE built.returned = UnaryOp("NEG", operand)

\* C24: a BinaryOp or UnaryOp that arith_expr, term, comparison, logical_and,
\* logical_or or factor returns carries an operator kind of the closed set:
\* ADD, SUB, MUL, DIV, EQ, NEQ, LT, LTE, GT, GTE, AND, OR for a BinaryOp, NEG
\* or NOT for a UnaryOp; never the spelling of the operator token.
C24_OperatorKinds ==
    ( /\ HasAttr(built, "rule")
      /\ built.rule \in {"arith_expr", "term", "comparison", "logical_and",
                         "logical_or", "factor"} ) =>
        /\ isinstance(built.returned, "BinaryOp")
               => built.returned.operator \in BinaryOperators
        /\ isinstance(built.returned, "UnaryOp")
               => built.returned.operator \in UnaryOperators

\* C25: a rule called with children of a shape it does not handle raises and
\* returns no node: foreach_statement with fewer than three children,
\* parameter with other than two or three children, arith_expr with an
\* operator that is none of + - * /.
C25_UnrecognizedShapeRaises ==
    HasAttr(built, "rule") =>
        LET args == built.args
            unrecognized ==
                \/ built.rule = "foreach_statement" /\ Len(args) < 3
                \/ built.rule = "parameter" /\ Len(args) \notin {2, 3}
                \/ /\ built.rule = "arith_expr" /\ Len(args) = 3
                   /\ op_str(args[2]) \notin {"+", "-", "*", "/"}
        IN  unrecognized => ~IsNone(built.raised) /\ IsNone(built.returned)


-----------------------------------------------------------------------------
(* Properties of the line-oriented transpiler: the run of the loop.         *)

\* C26: the loop of transpile() ends on every input.  A pass either moves to
\* the next line or stays on the line and changes the parsing state, from
\* IN_INPUTS to IN_FUNCTION_BODY or from there to TOP_LEVEL, so a line is
\* read at most three times; and a call that entered the loop returns, with
\* the index at the number of lines.
C26_LoopTerminates ==
    /\ [][(at = "loop" /\ at' = "loop") =>
             \/ frame'.i = frame.i + 1
             \/ /\ frame'.i = frame.i
                /\ <<frame.parsing_state, frame'.parsing_state>>
                       \in {<<"IN_INPUTS", "IN_FUNCTION_BODY">>,
                            <<"IN_FUNCTION_BODY", "TOP_LEVEL">>}]_vars
    /\ (at = "loop") ~> (at = "returned" /\ frame.i = Len(frame.lines))

\* C26 witness: the call has returned from a program of two functions, whose
\* lines after each inputs block and after the first body are read again in
\* the next state.
C26_Witness ==
    /\ at = "returned"
    /\ fluent_code = Code(Function(<<"- a (number)">>, <<"    return a">>)
                          \o <<"", "# Another function">>
                          \o Function(<<"- b (number optional 0)">>,
                                      <<"    return b">>))
    /\ frame.i = Len(frame.lines)
    /\ \E k \in 1..Len(frame.emitted) : frame.emitted[k].kind = "def"


\* C27: every `define <name>` line followed by an `inputs:` line indented
\* deeper than it (blank lines and comments may stand between them) gives
\* exactly one `def <name>(` line in the output, written before the next
\* `define` line is passed, wherever the input ends.
C27_DefLinePerFunction ==
    LET lines == frame.lines
        S(n) == strip(lines[n])
        Column(n) == RunLen(lines[n], Whitespace)
        defines == {n \in 1..Len(lines) : startswith(S(n), "define ")}
        Opens(n, m) ==
            /\ S(m) = "inputs:" /\ Column(m) > Column(n)
            /\ \A j \in (n + 1)..(m - 1) : S(j) = "" \/ startswith(S(j), "#")
        Last(n) ==
            IF \E d \in defines : d > n
            THEN CHOOSE d \in defines :
                     d > n /\ \A other \in defines : other > n => d <= other
            ELSE Len(lines)
        DefLines(n, m) ==
            {k \in 1..Len(frame.emitted) :
                /\ frame.emitted[k].kind = "def"
                /\ frame.emitted[k].line_number > m
                /\ frame.emitted[k].line_number <= Last(n)
                /\ startswith(frame.python_lines[k],
                              Repeat(" ", Column(n)) \o "def "
                                  \o strip(From(S(n), 7)) \o "(")}
    IN  at = "returned" =>
            \A n \in defines : \A m \in (n + 1)..Len(lines) :
                Opens(n, m) => Cardinality(DefLines(n, m)) = 1


\* C28: every line written for a function body, a statement, a block
\* header, a comment or the comment of a parameter, is indented strictly
\* deeper than the def line of its function, which stands at the
\* indentation of the `define` line.
C28_BodyDeeperThanDef ==
    at = "returned" =>
        \A k \in 1..Len(frame.emitted) :
            ( \/ frame.emitted[k].kind = "param_comment"
              \/ /\ frame.emitted[k].state = "IN_FUNCTION_BODY"
                 /\ frame.emitted[k].kind \in {"stmt", "header", "comment"} )
                => RunLen(frame.python_lines[k], Whitespace)
                       > frame.emitted[k].function_indent


\* C29: the def line of a function and the parameter comments written with
\* it come from the function's own inputs block alone, the lines between its
\* `inputs:` line and the line that ended the block: the def line lists the
\* parameters those lines declare, and each comment is the comment of one of
\* them; nothing declared for an earlier function, finished or abandoned,
\* appears.
C29_OwnParametersOnly ==
    LET lines == frame.lines
        written == frame.emitted
        Define(p) ==
            CHOOSE n \in 1..(p - 1) :
                /\ startswith(strip(lines[n]), "define ")
                /\ \A later \in (n + 1)..(p - 1) :
                       ~startswith(strip(lines[later]), "define ")
        Inputs(p) ==
            CHOOSE m \in (Define(p) + 1)..(p - 1) : strip(lines[m]) = "inputs:"
        Own(p) ==
            SelectSeq([j \in 1..(p - 1 - Inputs(p)) |->
                          MatchParam(strip(lines[Inputs(p) + j]))],
                      LAMBDA d : d.ok)
        Listed(p) ==
            LET required == SelectSeq(Own(p), LAMBDA d : IsNone(d.default_value))
                defaulted == SelectSeq(Own(p), LAMBDA d : ~IsNone(d.default_value))
            IN  Join(", ",
                     [j \in 1..Len(required) |-> required[j].param_name]
                         \o [j \in 1..Len(defaulted) |->
                                defaulted[j].param_name \o "="
                                    \o defaulted[j].default_value.str])
    IN  at = "returned" =>
            \A k \in 1..Len(written) :
                /\ written[k].kind = "def" =>
                       frame.python_lines[k]
                           = Repeat(" ", written[k].function_indent) \o "def "
                                 \o strip(From(strip(lines[Define(written[k].line_number)]), 7))
                                 \o "(" \o Listed(written[k].line_number) \o "):"
                /\ written[k].kind = "param_comment" =>
                       \E j \in 1..Len(Own(written[k].line_number)) :
                           strip(frame.python_lines[k])
                               = Own(written[k].line_number)[j].comment

\* C29 witness: a function with a commented parameter x is ended by the
\* define of a second function; the def line of the second lists y alone.
C29_Witness ==
    /\ at = "returned"
    /\ fluent_code = Code(Function(<<"- x (number) # Parameter comment">>, <<>>)
                          \o Function(<<"- y (number optional 0)">>,
                                      <<"    return y">>))
    /\ frame.python_lines
           = <<"def greet(x):", "    # Parameter comment", "def greet(y=0):",
               "    return y">>


\* C30: a call of a built-in, a key of FLUENT_TO_PYTHON_MAP, is emitted
\* either as indexed access (GET_ELEMENT with two arguments) or as a call of
\* the lower-cased name, and that name is one the import of the preamble
\* binds and the module fluent_stdlib_map defines; no call of a built-in
\* refers to an unbound name.
C30_BuiltinsBound ==
    \A c \in CallExprs :
        (/\ CalleeName(c).str \in DOMAIN FLUENT_TO_PYTHON_MAP
         /\ Ran(Program(<<PrintStatement(c)>>))) =>
            \/ /\ CalleeName(c).str = "GET_ELEMENT"
               /\ Len(c.arguments) = 2
               /\ self.output[2].text
                      = "print(" \o visit_expr(c.arguments[1]) \o "["
                            \o visit_expr(c.arguments[2]) \o "])\n"
            \/ \E name \in StdlibNames :
                   /\ startswith(self.output[2].text, "print(" \o name \o "(")
                   /\ \/ Contains(generate_imports, " " \o name \o ",")
                      \/ Contains(generate_imports, " " \o name \o "\n)")

\* C30 case: a call of READ_FILE, a key of the table, has been transpiled;
\* the text calls read_file.
C30_Witness ==
    /\ Ran(Program(<<PrintStatement(FunctionCall(PyStr("READ_FILE"), <<A>>))>>))
    /\ self.output[2].text = "print(read_file(a))\n"

====
